---- MODULE Spec2Model ----
(***************************************************************************)
(* Handle life cycle of pyft4222: stream-mode handles (ProtocolStream,     *)
(* GpioStream, SpiStream), the capability handles carved out of them       *)
(* (Gpio, SpiMasterSingle, SpiMasterMulti, SpiSlaveRaw, SpiSlaveProto,     *)
(* I2CMaster, I2CSlave) and the native driver they call into.              *)
(*                                                                         *)
(* A handle object is a record [cls, handle, origin]: `handle` is the      *)
(* Python attribute _handle (None or the token of a native connection),    *)
(* `origin` is the second constructor argument of a capability handle,     *)
(* i.e. the stream object that stream.py passes as `self`.                 *)
(***************************************************************************)
EXTENDS Integers, Sequences, FiniteSets, TLC

VARIABLES objs, dev, last, thr, lib

vars == <<objs, dev, last, thr, lib>>

(* ----------------------------- bounds ---------------------------------- *)
MaxObjs == 3
MaxConns == 1

(* --------------------------- vocabulary -------------------------------- *)
None == 0

NativeStatus == {"OK", "DEVICE_NOT_OPENED", "IO_ERROR"}

StreamClasses == {"ProtocolStream", "GpioStream", "SpiStream"}

ModeClassCaps == {"SpiMasterSingle", "SpiMasterMulti", "I2CMaster"}

StreamHandleCaps == {"Gpio", "SpiSlaveRaw", "SpiSlaveProto", "I2CSlave"}

CapClasses == ModeClassCaps \cup StreamHandleCaps

tag(cls) ==
    CASE cls = "ProtocolStream" -> "DATA_STREAM"
      [] cls = "GpioStream" -> "GPIO"
      [] cls = "SpiStream" -> "SPI_MASTER"

SpiMasterInits == {"init_single_spi_master", "init_dual_spi_master", "init_quad_spi_master"}

(* variant: the GPIO stream offers the I2C slave initialiser as well *)
InitOps_gpio_i2c(cls) ==
    IF cls = "GpioStream" THEN {"init_gpio", "init_i2c_slave"}
    ELSE IF cls = "SpiStream" THEN SpiMasterInits
    ELSE SpiMasterInits \cup {"init_raw_spi_slave", "init_proto_spi_slave",
                              "init_i2c_master", "init_i2c_slave"}

InitOps(cls) ==
    CASE cls = "ProtocolStream" ->
            SpiMasterInits \cup {"init_raw_spi_slave", "init_proto_spi_slave",
                                 "init_i2c_master", "init_i2c_slave"}
      [] cls = "GpioStream" -> {"init_gpio"}
      [] cls = "SpiStream" -> SpiMasterInits
      [] OTHER -> {}

AllInits == SpiMasterInits \cup {"init_raw_spi_slave", "init_proto_spi_slave",
                                 "init_i2c_master", "init_i2c_slave", "init_gpio"}

(* variant: the dual-SPI initialiser builds a single-IO master handle *)
CapOf_dual_single(variant) ==
    CASE variant = "init_single_spi_master" -> "SpiMasterSingle"
      [] variant = "init_dual_spi_master" -> "SpiMasterSingle"
      [] variant = "init_quad_spi_master" -> "SpiMasterMulti"
      [] variant = "init_raw_spi_slave" -> "SpiSlaveRaw"
      [] variant = "init_proto_spi_slave" -> "SpiSlaveProto"
      [] variant = "init_i2c_master" -> "I2CMaster"
      [] variant = "init_i2c_slave" -> "I2CSlave"
      [] variant = "init_gpio" -> "Gpio"

(* class of the capability handle an init_* method constructs *)
CapOf(variant) ==
    CASE variant = "init_single_spi_master" -> "SpiMasterSingle"
      [] variant = "init_dual_spi_master" -> "SpiMasterMulti"
      [] variant = "init_quad_spi_master" -> "SpiMasterMulti"
      [] variant = "init_raw_spi_slave" -> "SpiSlaveRaw"
      [] variant = "init_proto_spi_slave" -> "SpiSlaveProto"
      [] variant = "init_i2c_master" -> "I2CMaster"
      [] variant = "init_i2c_slave" -> "I2CSlave"
      [] variant = "init_gpio" -> "Gpio"

(* native initialisation primitive an init_* method reaches *)
NativeInitOf(variant) ==
    CASE variant \in SpiMasterInits -> "FT4222_SPIMaster_Init"
      [] variant \in {"init_raw_spi_slave", "init_proto_spi_slave"} -> "FT4222_SPISlave_InitEx"
      [] variant = "init_i2c_master" -> "FT4222_I2CMaster_Init"
      [] variant = "init_i2c_slave" -> "FT4222_I2CSlave_Init"
      [] variant = "init_gpio" -> "FT4222_GPIO_Init"

(* protocol the device is in after the native initialisation succeeded *)
ProtoOf(variant) ==
    CASE variant = "init_single_spi_master" -> "spi_master_single"
      [] variant = "init_dual_spi_master" -> "spi_master_dual"
      [] variant = "init_quad_spi_master" -> "spi_master_quad"
      [] variant = "init_raw_spi_slave" -> "spi_slave_raw"
      [] variant = "init_proto_spi_slave" -> "spi_slave_proto"
      [] variant = "init_i2c_master" -> "i2c_master"
      [] variant = "init_i2c_slave" -> "i2c_slave"
      [] variant = "init_gpio" -> "gpio"

(* ------------------------- result of a call ---------------------------- *)
(* exc: type of the raised exception or "none"; status: the status the     *)
(* exception carries; ret: the returned handle object (index) or None;     *)
(* calls: the native primitives invoked, in order, each with the status    *)
(* the driver returned.                                                    *)
Call(fn, st) == [fn |-> fn, st |-> st]

Outcome(o, d, e, s, r, c) ==
    [objs |-> o, dev |-> d, exc |-> e, status |-> s, ret |-> r, calls |-> c,
     err |-> "none"]

(* a Result that is Err(e): nothing raised, no handle returned *)
ErrOutcome(o, d, e, c) ==
    [objs |-> o, dev |-> d, exc |-> "none", status |-> "-", ret |-> None,
     calls |-> c, err |-> e]

SetHandle(o, i, h) == [o EXCEPT ![i].handle = h]

(* the second constructor argument of a capability handle: stream.py      *)
(* passes the stream object itself (`self`), not its class                 *)
NoOrigin == [kind |-> "none", ref |-> 0, cls |-> "-"]

InstanceRef(o, i) == [kind |-> "instance", ref |-> i, cls |-> o[i].cls]

ClassRef(c) == [kind |-> "class", ref |-> 0, cls |-> c]

NewObj(c, h, org) == [cls |-> c, handle |-> h, origin |-> org]

(* --------------------------- native driver ----------------------------- *)
NativeInit(d, h, variant, st) ==
    IF st = "OK" THEN [d EXCEPT ![h].proto = ProtoOf(variant)] ELSE d

NativeUnInitialize(d, h, st) ==
    IF st = "OK" THEN [d EXCEPT ![h].proto = "none"] ELSE d

NativeClose(d, h, st) ==
    IF st = "OK" THEN [d EXCEPT ![h] = [open |-> FALSE, proto |-> "none"]] ELSE d

(* --------------------------- wrapper layer ----------------------------- *)
CloseTolerated == {"OK", "DEVICE_NOT_OPENED", "INVALID_HANDLE", "DEVICE_NOT_FOUND"}

close_handle(d, h, st) ==
    [dev |-> NativeClose(d, h, st),
     exc |-> IF st \in CloseTolerated THEN "none" ELSE "FtException",
     status |-> IF st \in CloseTolerated THEN "-" ELSE st]

uninitialize(d, h, st) ==
    [dev |-> NativeUnInitialize(d, h, st),
     exc |-> IF st /= "OK" THEN "Ft4222Exception" ELSE "none",
     status |-> IF st /= "OK" THEN st ELSE "-"]

(* the init wrappers return Ok(handle) or Err(status) *)
wrapper_init(d, h, variant, st) ==
    [dev |-> NativeInit(d, h, variant, st), ok |-> (st = "OK"), err |-> st]

(* ------------------------ GenericHandle.close -------------------------- *)
(* variant: close() of a Spent handle raises as the other methods do *)
GenericHandle_close_guarded(o, d, i, st) ==
    IF o[i].handle /= None
    THEN LET r == close_handle(d, o[i].handle, st)
         IN  IF r.exc /= "none"
             THEN Outcome(o, r.dev, r.exc, r.status, None, <<Call("FT_Close", st)>>)
             ELSE Outcome(SetHandle(o, i, None), r.dev, "none", "-", None, <<Call("FT_Close", st)>>)
    ELSE Outcome(o, d, "Ft4222Exception", "DEVICE_NOT_OPENED", None, <<>>)

(* variant: the resource field is emptied whatever the native close says *)
GenericHandle_close_clears(o, d, i, st) ==
    IF o[i].handle /= None
    THEN LET r == close_handle(d, o[i].handle, st)
         IN  Outcome(SetHandle(o, i, None), r.dev, r.exc, r.status, None,
                     <<Call("FT_Close", st)>>)
    ELSE Outcome(o, d, "none", "-", None, <<>>)

GenericHandle_close(o, d, i, st) ==
    IF o[i].handle /= None
    THEN LET r == close_handle(d, o[i].handle, st)
         IN  IF r.exc /= "none"
             THEN Outcome(o, r.dev, r.exc, r.status, None, <<Call("FT_Close", st)>>)
             ELSE Outcome(SetHandle(o, i, None), r.dev, "none", "-", None, <<Call("FT_Close", st)>>)
    ELSE Outcome(o, d, "none", "-", None, <<>>)


(* ------------------ stream.py: the init_* methods ---------------------- *)
Kbps == {59, 60, 3400, 3401}

(* variant: the guard raises DEVICE_NOT_OPENED as the other guards do *)
stream_init_dno(o, d, i, variant, kbps, st) ==
    IF o[i].handle = None
    THEN Outcome(o, d, "Ft4222Exception", "DEVICE_NOT_OPENED", None, <<>>)
    ELSE IF variant = "init_i2c_master" /\ ~(60 <= kbps /\ kbps <= 3400)
    THEN Outcome(o, d, "AssertionError", "-", None, <<>>)
    ELSE LET h == o[i].handle
             r == wrapper_init(d, h, variant, st)
         IN  IF ~r.ok
             THEN Outcome(o, r.dev, "Ft4222Exception", r.err, None,
                          <<Call(NativeInitOf(variant), st)>>)
             ELSE Outcome(Append(SetHandle(o, i, None),
                                 NewObj(CapOf(variant), h, InstanceRef(o, i))),
                          r.dev, "none", "-", Len(o) + 1,
                          <<Call(NativeInitOf(variant), st)>>)

(* variant: `self._handle = None` is executed before the native call *)
stream_init_early(o, d, i, variant, kbps, st) ==
    IF o[i].handle = None
    THEN Outcome(o, d, "Ft4222Exception", "INVALID_HANDLE", None, <<>>)
    ELSE IF variant = "init_i2c_master" /\ ~(60 <= kbps /\ kbps <= 3400)
    THEN Outcome(o, d, "AssertionError", "-", None, <<>>)
    ELSE LET h == o[i].handle
             o1 == SetHandle(o, i, None)
             r == wrapper_init(d, h, variant, st)
         IN  IF ~r.ok
             THEN Outcome(o1, r.dev, "Ft4222Exception", r.err, None,
                          <<Call(NativeInitOf(variant), st)>>)
             ELSE Outcome(Append(o1, NewObj(CapOf(variant), h, InstanceRef(o, i))),
                          r.dev, "none", "-", Len(o) + 1,
                          <<Call(NativeInitOf(variant), st)>>)

(* variant: the clock speed is passed to the driver unchecked *)
stream_init_unchecked(o, d, i, variant, kbps, st) ==
    IF o[i].handle = None
    THEN Outcome(o, d, "Ft4222Exception", "INVALID_HANDLE", None, <<>>)
    ELSE LET h == o[i].handle
             r == wrapper_init(d, h, variant, st)
         IN  IF ~r.ok
             THEN Outcome(o, r.dev, "Ft4222Exception", r.err, None,
                          <<Call(NativeInitOf(variant), st)>>)
             ELSE Outcome(Append(SetHandle(o, i, None),
                                 NewObj(CapOf(variant), h, InstanceRef(o, i))),
                          r.dev, "none", "-", Len(o) + 1,
                          <<Call(NativeInitOf(variant), st)>>)

stream_init(o, d, i, variant, kbps, st) ==
    IF o[i].handle = None
    THEN Outcome(o, d, "Ft4222Exception", "INVALID_HANDLE", None, <<>>)
    ELSE IF variant = "init_i2c_master" /\ ~(60 <= kbps /\ kbps <= 3400)
    THEN Outcome(o, d, "AssertionError", "-", None, <<>>)
    ELSE LET h == o[i].handle
             r == wrapper_init(d, h, variant, st)
         IN  IF ~r.ok
             THEN Outcome(o, r.dev, "Ft4222Exception", r.err, None,
                          <<Call(NativeInitOf(variant), st)>>)
             ELSE Outcome(Append(SetHandle(o, i, None),
                                 NewObj(CapOf(variant), h, InstanceRef(o, i))),
                          r.dev, "none", "-", Len(o) + 1,
                          <<Call(NativeInitOf(variant), st)>>)

(* ------------- handle.py: GenericProtocolHandle.uninitialize ----------- *)
(* variant: `self._handle = None` is forgotten *)
GenericProtocolHandle_uninitialize_keeps(o, d, i, st) ==
    IF o[i].handle /= None
    THEN LET h == o[i].handle
             r == uninitialize(d, h, st)
         IN  IF r.exc /= "none"
             THEN Outcome(o, r.dev, r.exc, r.status, None,
                          <<Call("FT4222_UnInitialize", st)>>)
             ELSE Outcome(SetHandle(o, o[i].origin.ref, h), r.dev, "none", "-",
                          o[i].origin.ref, <<Call("FT4222_UnInitialize", st)>>)
    ELSE Outcome(o, d, "Ft4222Exception", "DEVICE_NOT_OPENED", None, <<>>)

(* variant: the stream handle is repopulated before the native call *)
GenericProtocolHandle_uninitialize_early(o, d, i, st) ==
    IF o[i].handle /= None
    THEN LET h == o[i].handle
             o1 == SetHandle(o, o[i].origin.ref, h)
             r == uninitialize(d, h, st)
         IN  IF r.exc /= "none"
             THEN Outcome(o1, r.dev, r.exc, r.status, None,
                          <<Call("FT4222_UnInitialize", st)>>)
             ELSE Outcome(SetHandle(o1, i, None), r.dev, "none", "-",
                          o[i].origin.ref, <<Call("FT4222_UnInitialize", st)>>)
    ELSE Outcome(o, d, "Ft4222Exception", "DEVICE_NOT_OPENED", None, <<>>)

GenericProtocolHandle_uninitialize(o, d, i, st) ==
    IF o[i].handle /= None
    THEN LET h == o[i].handle
             r == uninitialize(d, h, st)
         IN  IF r.exc /= "none"
             THEN Outcome(o, r.dev, r.exc, r.status, None, <<Call("FT4222_UnInitialize", st)>>)
             ELSE Outcome(SetHandle(SetHandle(o, o[i].origin.ref, h), i, None),
                          r.dev, "none", "-", o[i].origin.ref,
                          <<Call("FT4222_UnInitialize", st)>>)
    ELSE Outcome(o, d, "Ft4222Exception", "DEVICE_NOT_OPENED", None, <<>>)

(* --- spi/master.py, i2c/master.py: uninitialize through _mode_class ---- *)
(* self._mode_class(uninitialize(handle)): the argument is evaluated       *)
(* first, then _mode_class is called.  A class constructs a new stream     *)
(* handle; a handle object is not callable and the call raises TypeError.  *)
call_mode_class(o, d, mc, h, calls) ==
    IF mc.kind = "class"
    THEN Outcome(Append(o, NewObj(mc.cls, h, NoOrigin)), d, "none", "-",
                 Len(o) + 1, calls)
    ELSE Outcome(o, d, "TypeError", "-", None, calls)

SpiMasterCommon_uninitialize(o, d, i, st) ==
    IF o[i].handle /= None
    THEN LET h == o[i].handle
             o1 == SetHandle(o, i, None)
             r == uninitialize(d, h, st)
         IN  IF r.exc /= "none"
             THEN Outcome(o1, r.dev, r.exc, r.status, None, <<Call("FT4222_UnInitialize", st)>>)
             ELSE call_mode_class(o1, r.dev, o[i].origin, h, <<Call("FT4222_UnInitialize", st)>>)
    ELSE Outcome(o, d, "Ft4222Exception", "DEVICE_NOT_OPENED", None, <<>>)

(* variant: a Spent handle returns silently *)
I2CMaster_uninitialize_silent(o, d, i, st) ==
    IF o[i].handle /= None
    THEN LET h == o[i].handle
             o1 == SetHandle(o, i, None)
             r == uninitialize(d, h, st)
         IN  IF r.exc /= "none"
             THEN Outcome(o1, r.dev, r.exc, r.status, None, <<Call("FT4222_UnInitialize", st)>>)
             ELSE call_mode_class(o1, r.dev, o[i].origin, h, <<Call("FT4222_UnInitialize", st)>>)
    ELSE Outcome(o, d, "none", "-", None, <<>>)

I2CMaster_uninitialize(o, d, i, st) ==
    IF o[i].handle /= None
    THEN LET h == o[i].handle
             o1 == SetHandle(o, i, None)
             r == uninitialize(d, h, st)
         IN  IF r.exc /= "none"
             THEN Outcome(o1, r.dev, r.exc, r.status, None, <<Call("FT4222_UnInitialize", st)>>)
             ELSE call_mode_class(o1, r.dev, o[i].origin, h, <<Call("FT4222_UnInitialize", st)>>)
    ELSE Outcome(o, d, "Ft4222Exception", "DEVICE_NOT_OPENED", None, <<>>)

(* method resolution of uninitialize() on a capability handle *)
cap_uninitialize(o, d, i, st) ==
    CASE o[i].cls \in {"SpiMasterSingle", "SpiMasterMulti"} ->
            SpiMasterCommon_uninitialize(o, d, i, st)
      [] o[i].cls = "I2CMaster" -> I2CMaster_uninitialize(o, d, i, st)
      [] OTHER -> GenericProtocolHandle_uninitialize(o, d, i, st)

(* ---- close() of a capability handle: self.uninitialize().close() ------ *)
GenericProtocolHandle_close(o, d, i, st1, st2) ==
    LET u == cap_uninitialize(o, d, i, st1)
    IN  IF u.exc /= "none"
        THEN u
        ELSE LET c == GenericHandle_close(u.objs, u.dev, u.ret, st2)
             IN  Outcome(c.objs, c.dev, c.exc, c.status, None, u.calls \o c.calls)

(* method resolution of close() *)
handle_close(o, d, i, st1, st2) ==
    IF o[i].cls \in StreamClasses
    THEN GenericHandle_close(o, d, i, st2)
    ELSE GenericProtocolHandle_close(o, d, i, st1, st2)

(* ---------------- spi/master.py: SpiMasterCommon.set_io_mode ----------- *)
IoModes == {"SINGLE", "DUAL", "QUAD"}

SpiMasterCommon_set_io_mode(o, d, i, io_mode) ==
    IF o[i].handle /= None
    THEN LET h == o[i].handle
             o1 == SetHandle(o, i, None)
         IN  IF io_mode = "SINGLE"
             THEN Outcome(Append(o1, NewObj("SpiMasterSingle", h, o[i].origin)),
                          d, "none", "-", Len(o) + 1, <<>>)
             ELSE Outcome(Append(o1, NewObj("SpiMasterMulti", h, o[i].origin)),
                          d, "none", "-", Len(o) + 1, <<>>)
    ELSE Outcome(o, d, "Ft4222Exception", "DEVICE_NOT_OPENED", None, <<>>)

(* ------------------- __init__.py: mode resolution ---------------------- *)
Descriptions == {"FT4222 A", "FT4222 B", "FT4222 C", "FT4222 D", "FT4222", "FT232R"}

DeviceTypes == {"DEV_4222H_0", "DEV_4222H_1_2", "DEV_4222H_3", "DEV_232R"}

(* variant: interface B of mode 0 resolves to the data stream *)
MODE_MAP_b0_data(desc, dtype) ==
    CASE desc = "FT4222 A" /\ dtype = "DEV_4222H_0" -> "ProtocolStream"
      [] desc = "FT4222 B" /\ dtype = "DEV_4222H_0" -> "ProtocolStream"
      [] desc = "FT4222 A" /\ dtype = "DEV_4222H_1_2" -> "SpiStream"
      [] desc = "FT4222 B" /\ dtype = "DEV_4222H_1_2" -> "SpiStream"
      [] desc = "FT4222 C" /\ dtype = "DEV_4222H_1_2" -> "SpiStream"
      [] desc = "FT4222 D" /\ dtype = "DEV_4222H_1_2" -> "_disambiguate_modes"
      [] desc = "FT4222" /\ dtype = "DEV_4222H_3" -> "ProtocolStream"
      [] OTHER -> "None"

(* variant: the table has an entry for interface D of mode 0 *)
MODE_MAP_d0_gpio(desc, dtype) ==
    CASE desc = "FT4222 A" /\ dtype = "DEV_4222H_0" -> "ProtocolStream"
      [] desc = "FT4222 B" /\ dtype = "DEV_4222H_0" -> "GpioStream"
      [] desc = "FT4222 D" /\ dtype = "DEV_4222H_0" -> "GpioStream"
      [] desc = "FT4222 A" /\ dtype = "DEV_4222H_1_2" -> "SpiStream"
      [] desc = "FT4222 B" /\ dtype = "DEV_4222H_1_2" -> "SpiStream"
      [] desc = "FT4222 C" /\ dtype = "DEV_4222H_1_2" -> "SpiStream"
      [] desc = "FT4222 D" /\ dtype = "DEV_4222H_1_2" -> "_disambiguate_modes"
      [] desc = "FT4222" /\ dtype = "DEV_4222H_3" -> "ProtocolStream"
      [] OTHER -> "None"

(* _MODE_MAP.get(key): the constructor, the probe, or "None" *)
MODE_MAP(desc, dtype) ==
    CASE desc = "FT4222 A" /\ dtype = "DEV_4222H_0" -> "ProtocolStream"
      [] desc = "FT4222 B" /\ dtype = "DEV_4222H_0" -> "GpioStream"
      [] desc = "FT4222 A" /\ dtype = "DEV_4222H_1_2" -> "SpiStream"
      [] desc = "FT4222 B" /\ dtype = "DEV_4222H_1_2" -> "SpiStream"
      [] desc = "FT4222 C" /\ dtype = "DEV_4222H_1_2" -> "SpiStream"
      [] desc = "FT4222 D" /\ dtype = "DEV_4222H_1_2" -> "_disambiguate_modes"
      [] desc = "FT4222" /\ dtype = "DEV_4222H_3" -> "ProtocolStream"
      [] OTHER -> "None"

DEFAULT_GPIO_DIRS == <<"INPUT", "INPUT", "INPUT", "INPUT">>

(* the probe: wgpio.init(handle, _DEFAULT_GPIO_DIRS) *)
ProbeCall(st) == [fn |-> "FT4222_GPIO_Init", st |-> st, dirs |-> DEFAULT_GPIO_DIRS]

(* variant: the accepted probe is not rolled back *)
disambiguate_modes_no_rollback(o, d, h, probeSt, unSt) ==
    LET r == wrapper_init(d, h, "init_gpio", probeSt)
    IN  IF r.ok
        THEN Outcome(Append(o, NewObj("GpioStream", h, NoOrigin)), r.dev,
                     "none", "-", Len(o) + 1, <<ProbeCall(probeSt)>>)
        ELSE Outcome(Append(o, NewObj("SpiStream", h, NoOrigin)), r.dev,
                     "none", "-", Len(o) + 1, <<ProbeCall(probeSt)>>)

(* variant: the rejected probe is rolled back too *)
disambiguate_modes_always_rollback(o, d, h, probeSt, unSt) ==
    LET r == wrapper_init(d, h, "init_gpio", probeSt)
        u == uninitialize(r.dev, h, unSt)
        c == <<ProbeCall(probeSt), Call("FT4222_UnInitialize", unSt)>>
    IN  IF u.exc /= "none"
        THEN Outcome(o, u.dev, u.exc, u.status, None, c)
        ELSE IF r.ok
        THEN Outcome(Append(o, NewObj("GpioStream", h, NoOrigin)), u.dev,
                     "none", "-", Len(o) + 1, c)
        ELSE Outcome(Append(o, NewObj("SpiStream", h, NoOrigin)), u.dev,
                     "none", "-", Len(o) + 1, c)

(* variant: a failed rollback falls back to the SPI master stream *)
disambiguate_modes_rollback_tolerant(o, d, h, probeSt, unSt) ==
    LET r == wrapper_init(d, h, "init_gpio", probeSt)
    IN  IF r.ok
        THEN LET u == uninitialize(r.dev, h, unSt)
             IN  IF u.exc /= "none"
                 THEN Outcome(Append(o, NewObj("SpiStream", h, NoOrigin)), u.dev,
                              "none", "-", Len(o) + 1,
                              <<ProbeCall(probeSt), Call("FT4222_UnInitialize", unSt)>>)
                 ELSE Outcome(Append(o, NewObj("GpioStream", h, NoOrigin)), u.dev,
                              "none", "-", Len(o) + 1,
                              <<ProbeCall(probeSt), Call("FT4222_UnInitialize", unSt)>>)
        ELSE Outcome(Append(o, NewObj("SpiStream", h, NoOrigin)), r.dev,
                     "none", "-", Len(o) + 1, <<ProbeCall(probeSt)>>)

disambiguate_modes(o, d, h, probeSt, unSt) ==
    LET r == wrapper_init(d, h, "init_gpio", probeSt)
    IN  IF r.ok
        THEN LET u == uninitialize(r.dev, h, unSt)
             IN  IF u.exc /= "none"
                 THEN Outcome(o, u.dev, u.exc, u.status, None,
                              <<ProbeCall(probeSt), Call("FT4222_UnInitialize", unSt)>>)
                 ELSE Outcome(Append(o, NewObj("GpioStream", h, NoOrigin)), u.dev,
                              "none", "-", Len(o) + 1,
                              <<ProbeCall(probeSt), Call("FT4222_UnInitialize", unSt)>>)
        ELSE Outcome(Append(o, NewObj("SpiStream", h, NoOrigin)), r.dev,
                     "none", "-", Len(o) + 1, <<ProbeCall(probeSt)>>)

(* ftd.get_device_info as _get_mode_handle uses it: the details, None for  *)
(* the three "no such device" statuses, FtException for any other status   *)
InfoNone == {"DEVICE_NOT_FOUND", "DEVICE_NOT_OPENED", "INVALID_HANDLE"}

get_device_info(infoSt) ==
    IF infoSt = "OK" THEN "details"
    ELSE IF infoSt \in InfoNone THEN "None"
    ELSE "raise"

get_mode_handle(o, d, h, infoSt, desc, dtype, probeSt, unSt) ==
    LET dev_details == get_device_info(infoSt)
    IN  IF dev_details = "raise"
        THEN Outcome(o, d, "FtException", infoSt, None, <<Call("FT_GetDeviceInfo", infoSt)>>)
        ELSE IF dev_details = "None"
        THEN ErrOutcome(o, d, "INVALID_HANDLE", <<Call("FT_GetDeviceInfo", infoSt)>>)
        ELSE LET handle_type == MODE_MAP(desc, dtype)
             IN  IF handle_type = "None"
                 THEN ErrOutcome(o, d, "INVALID_MODE", <<Call("FT_GetDeviceInfo", infoSt)>>)
                 ELSE IF handle_type = "_disambiguate_modes"
                 THEN LET r == disambiguate_modes(o, d, h, probeSt, unSt)
                      IN  Outcome(r.objs, r.dev, r.exc, r.status, r.ret,
                                  <<Call("FT_GetDeviceInfo", infoSt)>> \o r.calls)
                 ELSE Outcome(Append(o, NewObj(handle_type, h, NoOrigin)), d,
                              "none", "-", Len(o) + 1, <<Call("FT_GetDeviceInfo", infoSt)>>)

(* a successful native open yields the token of a new connection *)
NativeOpen(d) == Append(d, [open |-> TRUE, proto |-> "none"])

(* a device index is the integer hi * 2^16 + lo with 0 <= lo < 2^16 (the   *)
(* index 2^31 itself does not fit the 32-bit integers of TLC)             *)
Limb == 65536

Idx(hi, lo) == [hi |-> hi, lo |-> lo]

(* -1, 0, 2^31 - 1, 2^31 *)
DevIdx == {Idx(-1, Limb - 1), Idx(0, 0), Idx(32767, Limb - 1), Idx(32768, 0)}

(* variant: the upper bound is inclusive, 0 <= dev_idx <= 2**31 *)
validate_dev_idx_inclusive(dev_idx) ==
    /\ 0 <= dev_idx.hi
    /\ (dev_idx.hi < 32768 \/ (dev_idx.hi = 32768 /\ dev_idx.lo = 0))

(* 0 <= dev_idx < 2**31, with 2**31 = 32768 * 2^16 *)
validate_dev_idx(dev_idx) == 0 <= dev_idx.hi /\ dev_idx.hi < 32768

open_by_idx(o, d, dev_idx, openSt, infoSt, desc, dtype, probeSt, unSt) ==
    IF validate_dev_idx(dev_idx)
    THEN IF openSt = "OK"
         THEN LET r == get_mode_handle(o, NativeOpen(d), Len(d) + 1, infoSt,
                                       desc, dtype, probeSt, unSt)
              IN  [r EXCEPT !.calls = <<Call("FT_Open", openSt)>> \o r.calls]
         ELSE ErrOutcome(o, d, "INVALID_HANDLE", <<Call("FT_Open", openSt)>>)
    ELSE ErrOutcome(o, d, "INVALID_IDX", <<>>)

(* open_by_serial and open_by_description: FT_OpenEx, then resolution *)
open_by_serial(o, d, openSt, infoSt, desc, dtype, probeSt, unSt) ==
    IF openSt = "OK"
    THEN LET r == get_mode_handle(o, NativeOpen(d), Len(d) + 1, infoSt,
                                  desc, dtype, probeSt, unSt)
         IN  [r EXCEPT !.calls = <<Call("FT_OpenEx", openSt)>> \o r.calls]
    ELSE ErrOutcome(o, d, "INVALID_HANDLE", <<Call("FT_OpenEx", openSt)>>)

(* ------------- wrapper/dll_loader.py: the native libraries ------------- *)
(* lib holds the module globals ftlib and d2lib ("unset" while the name is *)
(* not in globals()), OS_TYPE and platform.machine(), and the number of    *)
(* times each library has been loaded.                                     *)
OsTypes == {"Windows", "Linux", "Darwin", "FreeBSD"}

Machines == {"AMD64", "x86_64", "arm64"}

(* a faulty loader stops loading after MaxLoads loads of one library *)
MaxLoads == 2

DLL_IMPORT_MAP ==
    {<<"Windows", "AMD64">>, <<"Windows", "ARM64">>, <<"Linux", "x86_64">>,
     <<"Linux", "aarch64">>, <<"Darwin", "x86_64">>, <<"Darwin", "arm64">>}

(* _dll_path is not None *)
dll_path_found(l) == <<l.os, l.machine>> \in DLL_IMPORT_MAP

NewLib(os, machine) ==
    [os |-> os, machine |-> machine, ftlib |-> "unset", d2lib |-> "unset",
     ft_loads |-> 0, d2_loads |-> 0]

(* the libraries after a successful import on Linux/x86_64 *)
LoadedLib ==
    [os |-> "Linux", machine |-> "x86_64", ftlib |-> "libft4222",
     d2lib |-> "libft4222", ft_loads |-> 1, d2_loads |-> 0]

LibOutcome(l, e, c) == [lib |-> l, exc |-> e, calls |-> c]

(* DllMeta.load: compare the digest, then load *)
DllMeta_load(l, hashOk, ftOk) ==
    IF ~hashOk
    THEN LibOutcome(l, "SystemExit", <<Call("sha256", "differs")>>)
    ELSE IF ~ftOk
    THEN LibOutcome(l, "SystemExit",
                    <<Call("sha256", "equal"), Call("LoadLibrary(ft4222)", "OSError")>>)
    ELSE LibOutcome([l EXCEPT !.ftlib = "libft4222", !.ft_loads = @ + 1], "none",
                    <<Call("sha256", "equal"), Call("LoadLibrary(ft4222)", "OK")>>)

get_ft4222_lib(l, hashOk, ftOk) ==
    IF ~dll_path_found(l)
    THEN LibOutcome(l, "RuntimeError", <<>>)
    ELSE DllMeta_load(l, hashOk, ftOk)

(* _get_d2xx_lib and the assignment of d2lib *)
get_d2xx_lib(l, d2Ok) ==
    IF dll_path_found(l) /\ l.os = "Windows"
    THEN IF ~d2Ok
         THEN LibOutcome(l, "SystemExit", <<Call("LoadLibrary(ftd2xx)", "OSError")>>)
         ELSE LibOutcome([l EXCEPT !.d2lib = "ftd2xx", !.d2_loads = @ + 1], "none",
                         <<Call("LoadLibrary(ftd2xx)", "OK")>>)
    ELSE LibOutcome([l EXCEPT !.d2lib = l.ftlib], "none", <<>>)

(* variant: the libraries are loaded on every call *)
init_libraries_reload(l, hashOk, ftOk, d2Ok) ==
    LET a == get_ft4222_lib(l, hashOk, ftOk)
    IN  IF a.exc /= "none"
        THEN a
        ELSE LET b == get_d2xx_lib(a.lib, d2Ok)
             IN  LibOutcome(b.lib, b.exc, a.calls \o b.calls)

init_libraries(l, hashOk, ftOk, d2Ok) ==
    LET a == IF l.ftlib = "unset"
             THEN get_ft4222_lib(l, hashOk, ftOk)
             ELSE LibOutcome(l, "none", <<>>)
    IN  IF a.exc /= "none"
        THEN a
        ELSE LET b == IF a.lib.d2lib = "unset"
                      THEN get_d2xx_lib(a.lib, d2Ok)
                      ELSE LibOutcome(a.lib, "none", <<>>)
             IN  LibOutcome(b.lib, b.exc, a.calls \o b.calls)

(* ----------------------- result.py: Ok and Err ------------------------- *)
Ok(v) == [cls |-> "Ok", val |-> v]

Err(e) == [cls |-> "Err", err |-> e]

(* what a method leaves behind: the value returned, the exception raised   *)
(* and the arguments `fun` was called with                                 *)
NoExc == [type |-> "none", arg |-> "-"]

MethodOutcome(ret, exc, fcalls) == [ret |-> ret, exc |-> exc, calls |-> fcalls]

(* variant: the function is applied twice *)
Ok_map_twice(self, fun) ==
    MethodOutcome(Ok(fun[fun[self.val]]), NoExc, <<self.val, fun[self.val]>>)

Ok_map(self, fun) == MethodOutcome(Ok(fun[self.val]), NoExc, <<self.val>>)

Ok_flat_map(self, fun) == MethodOutcome(fun[self.val], NoExc, <<self.val>>)

Ok_unwrap(self, fun) == MethodOutcome(self.val, NoExc, <<>>)

Err_map(self, fun) == MethodOutcome(self, NoExc, <<>>)

Err_flat_map(self, fun) == MethodOutcome(self, NoExc, <<>>)

(* raise fun(self.err): nothing is returned *)
Err_unwrap(self, fun) == MethodOutcome(None, fun[self.err], <<self.err>>)

(* the values, errors and functions the methods are called with *)
Vals == 0 .. 2

Errs == {"INVALID_IDX", "INVALID_HANDLE"}

MapFuns ==
    {[v \in Vals |-> v], [v \in Vals |-> (v + 1) % 3], [v \in Vals |-> 0]}

FlatMapFuns ==
    {[v \in Vals |-> Ok(v)],
     [v \in Vals |-> IF v = 0 THEN Err("INVALID_IDX") ELSE Ok(v - 1)],
     [v \in Vals |-> Err("INVALID_HANDLE")]}

ExcFuns ==
    {[e \in Errs |-> [type |-> "ValueError", arg |-> e]],
     [e \in Errs |-> [type |-> "FtException", arg |-> e]],
     [e \in Errs |-> [type |-> "RuntimeError", arg |-> "-"]]}

(* ------------ wrapper/ftd2xx.py: get_device_info_detail ---------------- *)
(* the number of devices attached, at indices 0 .. n - 1 *)
MaxAttached == 2

(* -1, 0, 1, 2, 2^31 - 1, 2^31 *)
DetailIdx == DevIdx \cup {Idx(0, 1), Idx(0, 2)}

(* FT_GetDeviceInfoDetail(index): the entry of the device at `index`, or   *)
(* DEVICE_NOT_FOUND                                                        *)
NativeGetDeviceInfoDetail(n, index) ==
    IF index.hi = 0 /\ index.lo < n
    THEN [st |-> "OK", device |-> index.lo]
    ELSE [st |-> "DEVICE_NOT_FOUND", device |-> None]

DetailCall(index, st) == [fn |-> "FT_GetDeviceInfoDetail", st |-> st, index |-> index]

(* idx = c_uint(dev_idx) is replaced by idx = c_uint() before the call:    *)
(* the driver is asked about index 0                                       *)
wrapper_get_device_info_detail(n, dev_idx) ==
    IF ~(0 <= dev_idx.hi /\ dev_idx.hi <= 32767)
    THEN [ret |-> None, exc |-> "AssertionError", calls |-> <<>>]
    ELSE LET idx == Idx(0, 0)
             a == NativeGetDeviceInfoDetail(n, idx)
         IN  [ret |-> IF a.st /= "OK" THEN Err(a.st) ELSE Ok([device |-> a.device]),
              exc |-> "none", calls |-> <<DetailCall(idx, a.st)>>]

(* __init__.py get_device_info_detail: the wrapper's Result is never None  *)
(* and is wrapped in Ok                                                    *)
get_device_info_detail(n, dev_idx) ==
    IF validate_dev_idx(dev_idx)
    THEN LET result == wrapper_get_device_info_detail(n, dev_idx)
         IN  IF result.exc /= "none"
             THEN result
             ELSE [result EXCEPT !.ret = Ok(result.ret)]
    ELSE [ret |-> Err("INVALID_IDX"), exc |-> "none", calls |-> <<>>]

(* -------- operations guarded by the `_handle is None` check ------------ *)
CommonOps == {"set_clock", "get_version", "purge_buffers"}

(* methods every SPI master and SPI slave handle has *)
SpiCommonOps == {"reset_bus", "reset_transaction", "set_driving_strength"}

OpsOf(cls) ==
    CommonOps \cup
    (CASE cls = "Gpio" -> {"read", "write"}
       [] cls = "SpiMasterSingle" -> SpiCommonOps \cup {"single_read", "single_write"}
       [] cls = "SpiMasterMulti" -> SpiCommonOps \cup {"multi_read_write"}
       [] cls = "SpiSlaveRaw" -> SpiCommonOps \cup {"read", "write"}
       [] cls = "SpiSlaveProto" -> SpiCommonOps \cup {"read", "write", "set_event_notification"}
       [] cls = "I2CMaster" -> {"read", "write"}
       [] cls = "I2CSlave" -> {"read", "write", "set_address"}
       [] OTHER -> {})

AllOps == CommonOps \cup SpiCommonOps \cup {"read", "write", "single_read", "single_write",
                          "multi_read_write", "set_event_notification", "set_address"}

(* operations whose arguments the handle method validates (ValueError) *)
ArgOps(cls) ==
    CASE cls = "Gpio" -> {}
      [] OTHER -> {"read", "write", "single_read", "single_write",
                   "multi_read_write", "set_address"}

(* wrappers that return normally for OK, INVALID_HANDLE, DEVICE_NOT_FOUND  *)
(* and DEVICE_NOT_OPENED                                                   *)
SoftErrorOps == {"purge_buffers"} \cup SpiCommonOps

(* wrappers of the D2XX library raise FtException, those of LibFT4222      *)
(* raise Ft4222Exception                                                   *)
D2xxOps == {"purge_buffers", "reset_device"}

(* variant: every failure is reported as IO_ERROR *)
wrapper_call_masked(op, st) ==
    IF st = "OK" \/ (op \in SoftErrorOps /\ st \in CloseTolerated)
    THEN [exc |-> "none", status |-> "-"]
    ELSE [exc |-> IF op \in D2xxOps THEN "FtException" ELSE "Ft4222Exception",
          status |-> "IO_ERROR"]

wrapper_call(op, st) ==
    IF st = "OK" \/ (op \in SoftErrorOps /\ st \in CloseTolerated)
    THEN [exc |-> "none", status |-> "-"]
    ELSE [exc |-> IF op \in D2xxOps THEN "FtException" ELSE "Ft4222Exception",
          status |-> st]

(* variant: a failed native call invalidates the handle *)
handle_op_drops(o, d, i, op, valid, st) ==
    IF op = "set_event_notification"
    THEN Outcome(o, d, "NotImplementedError", "-", None, <<>>)
    ELSE IF o[i].handle = None
    THEN Outcome(o, d, "Ft4222Exception", "DEVICE_NOT_OPENED", None, <<>>)
    ELSE IF op \in ArgOps(o[i].cls) /\ ~valid
    THEN Outcome(o, d, "ValueError", "-", None, <<>>)
    ELSE LET r == wrapper_call(op, st)
         IN  Outcome(IF r.exc = "none" THEN o ELSE SetHandle(o, i, None),
                     d, r.exc, r.status, None, <<Call(op, st)>>)

handle_op(o, d, i, op, valid, st) ==
    IF op = "set_event_notification"
    THEN Outcome(o, d, "NotImplementedError", "-", None, <<>>)
    ELSE IF o[i].handle = None
    THEN Outcome(o, d, "Ft4222Exception", "DEVICE_NOT_OPENED", None, <<>>)
    ELSE IF op \in ArgOps(o[i].cls) /\ ~valid
    THEN Outcome(o, d, "ValueError", "-", None, <<>>)
    ELSE LET r == wrapper_call(op, st)
         IN  Outcome(o, d, r.exc, r.status, None, <<Call(op, st)>>)

(* ---------------- i2c/slave.py: I2CSlave.set_address ------------------- *)
(* -1, the ends of the wrapper's range, the address of examples/i2c_slave  *)
(* (0x0340), the ends of the documented range                              *)
Addrs == {-1, 0, 127, 128, 832, 65535, 65536}

(* wrapper/i2c/slave.py set_address: assert 0 <= addr < 2 ** 7, then the   *)
(* native call                                                             *)
wrapper_set_address(addr, st) ==
    IF ~(0 <= addr /\ addr < 128)
    THEN [exc |-> "AssertionError", status |-> "-", calls |-> <<>>]
    ELSE [exc |-> IF st /= "OK" THEN "Ft4222Exception" ELSE "none",
          status |-> IF st /= "OK" THEN st ELSE "-",
          calls |-> <<Call("set_address", st)>>]

I2CSlave_set_address(o, d, i, addr, st) ==
    IF o[i].handle = None
    THEN Outcome(o, d, "Ft4222Exception", "DEVICE_NOT_OPENED", None, <<>>)
    ELSE IF 0 <= addr /\ addr < 65536
    THEN LET r == wrapper_set_address(addr, st)
         IN  Outcome(o, d, r.exc, r.status, None, r.calls)
    ELSE Outcome(o, d, "ValueError", "-", None, <<>>)

(* ------------ spi/master.py: SpiMasterMulti.multi_read_write ----------- *)
(* write_data is modelled by its length, NoData standing for None          *)
NoData == -1

SingleCounts == {-1, 0, 15, 16}

MultiWriteCounts == {-1, 0, 1, 65535, 65536}

MultiReadCounts == {-1, 0, 65535, 65536}

WriteData == {NoData, 0, 16, 65535, 65536}

(* wrapper/spi/master.py multi_read_write: the assertions in the order of  *)
(* the code, then the native call                                          *)
wrapper_multi_read_write(wd, sw, mw, mr, st) ==
    IF ~(0 <= sw /\ sw < 16)
    THEN [exc |-> "AssertionError", status |-> "-", calls |-> <<>>]
    ELSE IF ~(0 <= mw /\ mw < 65536)
    THEN [exc |-> "AssertionError", status |-> "-", calls |-> <<>>]
    ELSE IF ~(0 <= mr /\ mr < 65536)
    THEN [exc |-> "AssertionError", status |-> "-", calls |-> <<>>]
    ELSE IF ~(sw + mw + mr > 0)
    THEN [exc |-> "AssertionError", status |-> "-", calls |-> <<>>]
    ELSE IF wd = NoData /\ ~(sw + mw = 0)
    THEN [exc |-> "AssertionError", status |-> "-", calls |-> <<>>]
    ELSE IF wd /= NoData /\ ~(wd < 65536)
    THEN [exc |-> "AssertionError", status |-> "-", calls |-> <<>>]
    ELSE IF wd /= NoData /\ ~(sw + mw <= wd)
    THEN [exc |-> "AssertionError", status |-> "-", calls |-> <<>>]
    ELSE [exc |-> IF st /= "OK" THEN "Ft4222Exception" ELSE "none",
          status |-> IF st /= "OK" THEN st ELSE "-",
          calls |-> <<Call("multi_read_write", st)>>]

(* variant: the total number of bytes is not checked *)
SpiMasterMulti_multi_read_write_any_total(o, d, i, wd, sw, mw, mr, st) ==
    IF o[i].handle = None
    THEN Outcome(o, d, "Ft4222Exception", "DEVICE_NOT_OPENED", None, <<>>)
    ELSE IF ~(0 <= sw /\ sw < 16)
    THEN Outcome(o, d, "ValueError", "-", None, <<>>)
    ELSE IF ~(0 <= mw /\ mw < 65536)
    THEN Outcome(o, d, "ValueError", "-", None, <<>>)
    ELSE IF ~(0 <= mr /\ mr < 65536)
    THEN Outcome(o, d, "ValueError", "-", None, <<>>)
    ELSE IF wd = NoData /\ sw + mw /= 0
    THEN Outcome(o, d, "ValueError", "-", None, <<>>)
    ELSE IF wd /= NoData /\ ~(0 <= wd /\ wd < 65536)
    THEN Outcome(o, d, "ValueError", "-", None, <<>>)
    ELSE IF wd /= NoData /\ sw + mw > wd
    THEN Outcome(o, d, "ValueError", "-", None, <<>>)
    ELSE LET r == wrapper_multi_read_write(wd, sw, mw, mr, st)
         IN  Outcome(o, d, r.exc, r.status, None, r.calls)

SpiMasterMulti_multi_read_write(o, d, i, wd, sw, mw, mr, st) ==
    IF o[i].handle = None
    THEN Outcome(o, d, "Ft4222Exception", "DEVICE_NOT_OPENED", None, <<>>)
    ELSE IF ~(0 <= sw /\ sw < 16)
    THEN Outcome(o, d, "ValueError", "-", None, <<>>)
    ELSE IF ~(0 <= mw /\ mw < 65536)
    THEN Outcome(o, d, "ValueError", "-", None, <<>>)
    ELSE IF ~(0 <= mr /\ mr < 65536)
    THEN Outcome(o, d, "ValueError", "-", None, <<>>)
    ELSE IF sw + mw + mr <= 0
    THEN Outcome(o, d, "ValueError", "-", None, <<>>)
    ELSE IF wd = NoData /\ sw + mw /= 0
    THEN Outcome(o, d, "ValueError", "-", None, <<>>)
    ELSE IF wd /= NoData /\ ~(0 <= wd /\ wd < 65536)
    THEN Outcome(o, d, "ValueError", "-", None, <<>>)
    ELSE IF wd /= NoData /\ sw + mw > wd
    THEN Outcome(o, d, "ValueError", "-", None, <<>>)
    ELSE LET r == wrapper_multi_read_write(wd, sw, mw, mr, st)
         IN  Outcome(o, d, r.exc, r.status, None, r.calls)

(* ------------------ i2c/master.py: I2CMaster.read ---------------------- *)
DevAddresses == {-1, 0, 65535, 65536}

ReadCounts == {0, 1, 65535, 65536}

(* wrapper i2c/master.py read: two assertions, then the native call *)
wrapper_i2c_read(da, n, st) ==
    IF ~(0 <= da /\ da < 65536)
    THEN [exc |-> "AssertionError", status |-> "-", calls |-> <<>>]
    ELSE IF ~(0 < n /\ n < 65536)
    THEN [exc |-> "AssertionError", status |-> "-", calls |-> <<>>]
    ELSE [exc |-> IF st /= "OK" THEN "Ft4222Exception" ELSE "none",
          status |-> IF st /= "OK" THEN st ELSE "-",
          calls |-> <<Call("read", st)>>]

(* variant: the arguments are validated before the handle is looked at *)
I2CMaster_read_validate_first(o, d, i, da, n, st) ==
    IF ~(0 <= da /\ da < 65536)
    THEN Outcome(o, d, "ValueError", "-", None, <<>>)
    ELSE IF ~(0 < n /\ n < 65536)
    THEN Outcome(o, d, "ValueError", "-", None, <<>>)
    ELSE IF o[i].handle = None
    THEN Outcome(o, d, "Ft4222Exception", "DEVICE_NOT_OPENED", None, <<>>)
    ELSE LET r == wrapper_i2c_read(da, n, st)
         IN  Outcome(o, d, r.exc, r.status, None, r.calls)

I2CMaster_read(o, d, i, da, n, st) ==
    IF o[i].handle = None
    THEN Outcome(o, d, "Ft4222Exception", "DEVICE_NOT_OPENED", None, <<>>)
    ELSE IF ~(0 <= da /\ da < 65536)
    THEN Outcome(o, d, "ValueError", "-", None, <<>>)
    ELSE IF ~(0 < n /\ n < 65536)
    THEN Outcome(o, d, "ValueError", "-", None, <<>>)
    ELSE LET r == wrapper_i2c_read(da, n, st)
         IN  Outcome(o, d, r.exc, r.status, None, r.calls)

(* ---------- handle.py: GenericHandle.reset_device / chip_reset --------- *)
ResetOps == {"reset_device", "chip_reset"}

(* variant: the handle is left open after the reset *)
GenericHandle_reset_keeps(o, d, i, op, st0, st1, st2) ==
    IF o[i].handle /= None
    THEN LET r == IF op = "reset_device"
                  THEN [exc |-> IF st0 \in CloseTolerated THEN "none" ELSE "FtException",
                        status |-> IF st0 \in CloseTolerated THEN "-" ELSE st0]
                  ELSE wrapper_call(op, st0)
         IN  Outcome(o, d, r.exc, r.status, None, <<Call(op, st0)>>)
    ELSE Outcome(o, d, "Ft4222Exception", "DEVICE_NOT_OPENED", None, <<>>)

GenericHandle_reset(o, d, i, op, st0, st1, st2) ==
    IF o[i].handle /= None
    THEN LET r == IF op = "reset_device"
                  THEN [exc |-> IF st0 \in CloseTolerated THEN "none" ELSE "FtException",
                        status |-> IF st0 \in CloseTolerated THEN "-" ELSE st0]
                  ELSE wrapper_call(op, st0)
         IN  IF r.exc /= "none"
             THEN Outcome(o, d, r.exc, r.status, None, <<Call(op, st0)>>)
             ELSE LET c == handle_close(o, d, i, st1, st2)
                  IN  [c EXCEPT !.calls = <<Call(op, st0)>> \o c.calls]
    ELSE Outcome(o, d, "Ft4222Exception", "DEVICE_NOT_OPENED", None, <<>>)

(* ------------- handle.py: __exit__ of the context managers ------------- *)
(* __enter__ is inherited from AbstractContextManager and returns self;    *)
(* __exit__ returns False, so an exception of the block is propagated      *)
GenericHandle_exit(o, d, i, st) ==
    IF o[i].handle /= None
    THEN GenericHandle_close(o, d, i, st)
    ELSE Outcome(o, d, "none", "-", None, <<>>)

GenericProtocolHandle_exit(o, d, i, st) ==
    IF o[i].handle /= None
    THEN [cap_uninitialize(o, d, i, st) EXCEPT !.ret = None]
    ELSE Outcome(o, d, "none", "-", None, <<>>)

(* method resolution of __exit__ *)
handle_exit(o, d, i, st) ==
    IF o[i].cls \in StreamClasses
    THEN GenericHandle_exit(o, d, i, st)
    ELSE GenericProtocolHandle_exit(o, d, i, st)

(* examples/gpio.py:                                                       *)
(*     with handle:                                                        *)
(*         with handle.init_X(...) as cap:                                 *)
(*             <block>                                                     *)
(* body is the exception the block ends with ("none": it ends normally).   *)
(* An exception raised by an __exit__ replaces the one in flight.          *)
BodyEnds == {"none", "BodyError"}

scoped_use(o, d, i, variant, body, stI, stU, stC) ==
    LET a == stream_init(o, d, i, variant, 60, stI)
    IN  IF a.exc /= "none"
        THEN LET x == handle_exit(a.objs, a.dev, i, stC)
             IN  Outcome(x.objs, x.dev,
                         IF x.exc /= "none" THEN x.exc ELSE a.exc,
                         IF x.exc /= "none" THEN x.status ELSE a.status,
                         None, a.calls \o x.calls)
        ELSE LET inner == handle_exit(a.objs, a.dev, a.ret, stU)
                 outer == handle_exit(inner.objs, inner.dev, i, stC)
             IN  Outcome(outer.objs, outer.dev,
                         IF outer.exc /= "none" THEN outer.exc
                         ELSE IF inner.exc /= "none" THEN inner.exc ELSE body,
                         IF outer.exc /= "none" THEN outer.status
                         ELSE IF inner.exc /= "none" THEN inner.status ELSE "-",
                         None, a.calls \o inner.calls \o outer.calls)

(* the arguments of a call that the properties read: the device index of  *)
(* open_by_idx and the description and type the device reports to         *)
(* FT_GetDeviceInfo during an open                                        *)
NoArg == [desc |-> "-", dtype |-> "-"]

(* thr[t] is the position of thread t inside a handle method: the method, *)
(* the object it was called on, the statement reached and the local       *)
(* variable holding the resource.  One caller runs a method to its end    *)
(* before the next call, so the threads stay idle under Spec.             *)
Threads == {1, 2}

Idle == [pc |-> "idle", op |-> "none", obj |-> None, h |-> None, exc |-> "none"]

NoCall ==
    [op |-> "none", obj |-> None, live |-> FALSE, held |-> None,
     same |-> TRUE, exc |-> "none", status |-> "-", ret |-> None,
     calls |-> <<>>, err |-> "none", arg |-> NoArg]

Init ==
    /\ objs = <<>>
    /\ dev = <<>>
    /\ last = NoCall
    /\ thr = [t \in Threads |-> Idle]
    /\ lib = LoadedLib

(* the observable result of the operation `op` applied to object i; live  *)
(* and held are the target's resource field before the call, same tells   *)
(* whether the call left every object and the driver as they were         *)
Record(op, i, arg, r) ==
    /\ Len(r.objs) <= MaxObjs
    /\ Len(r.dev) <= MaxConns
    /\ objs' = r.objs
    /\ dev' = r.dev
    /\ thr' = thr
    /\ lib' = lib
    /\ last' = [op |-> op, obj |-> i,
                live |-> IF i = None THEN FALSE ELSE objs[i].handle /= None,
                held |-> IF i = None THEN None ELSE objs[i].handle,
                same |-> (r.objs = objs /\ r.dev = dev),
                exc |-> r.exc, status |-> r.status, ret |-> r.ret,
                calls |-> r.calls, err |-> r.err, arg |-> arg]

Finish(op, i, r) == Record(op, i, NoArg, r)

Streams == {i \in DOMAIN objs : objs[i].cls \in StreamClasses}

Caps == {i \in DOMAIN objs : objs[i].cls \in CapClasses}

(* the driver's answers, in call order: an answer the call never asked    *)
(* for is fixed at "OK", so that every step is a distinct run of the code *)
Unread(r, sts) ==
    \A k \in DOMAIN sts : k > Len(r.calls) => sts[k] = "OK"

InitStar ==
    \E i \in Streams, variant \in AllInits, kbps \in Kbps, st \in NativeStatus :
        /\ variant /= "init_i2c_master" => kbps = 60
        /\ variant \in InitOps(objs[i].cls)
        /\ LET r == stream_init(objs, dev, i, variant, kbps, st)
           IN  /\ Unread(r, <<st>>)
               /\ Record(variant, i, [desc |-> "-", dtype |-> "-", kbps |-> kbps], r)

UnInitialize ==
    \E i \in Caps, st \in NativeStatus :
        LET r == cap_uninitialize(objs, dev, i, st)
        IN  Unread(r, <<st>>) /\ Finish("uninitialize", i, r)

Close ==
    \E i \in DOMAIN objs, st1 \in NativeStatus, st2 \in NativeStatus :
        LET r == handle_close(objs, dev, i, st1, st2)
        IN  /\ IF objs[i].cls \in StreamClasses
               THEN st1 = "OK" /\ Unread(r, <<st2>>)
               ELSE Unread(r, <<st1, st2>>)
            /\ Finish("close", i, r)

SetIoMode ==
    \E i \in Caps, io_mode \in IoModes :
        /\ objs[i].cls \in {"SpiMasterSingle", "SpiMasterMulti"}
        /\ Record("set_io_mode", i,
                  [desc |-> "-", dtype |-> "-", io_mode |-> io_mode],
                  SpiMasterCommon_set_io_mode(objs, dev, i, io_mode))

(* what the driver and the device answer during one open: the inputs a    *)
(* step does not read are fixed, so that every scenario is a distinct run  *)
Scenario(openSt, infoSt, desc, dtype, probeSt, unSt) ==
    [openSt |-> openSt, infoSt |-> infoSt, desc |-> desc, dtype |-> dtype,
     probeSt |-> probeSt, unSt |-> unSt]

OpenScenarios ==
    {Scenario(st, "OK", "FT4222", "DEV_4222H_3", "OK", "OK") :
        st \in NativeStatus \ {"OK"}}
    \cup {Scenario("OK", st, "FT4222", "DEV_4222H_3", "OK", "OK") :
        st \in NativeStatus \ {"OK"}}
    \cup {Scenario("OK", "OK", p[1], p[2], "OK", "OK") :
        p \in {q \in Descriptions \X DeviceTypes :
                  MODE_MAP(q[1], q[2]) /= "_disambiguate_modes"}}
    \cup {Scenario("OK", "OK", "FT4222 D", "DEV_4222H_1_2", st, "OK") :
        st \in NativeStatus \ {"OK"}}
    \cup {Scenario("OK", "OK", "FT4222 D", "DEV_4222H_1_2", "OK", st) :
        st \in NativeStatus}

DefaultScenario == Scenario("OK", "OK", "FT4222", "DEV_4222H_3", "OK", "OK")

OpenByIdx ==
    \E dev_idx \in DevIdx, sc \in OpenScenarios :
        /\ ~validate_dev_idx(dev_idx) => sc = DefaultScenario
        /\ Record("open_by_idx", None,
               [dev_idx |-> dev_idx, desc |-> sc.desc, dtype |-> sc.dtype],
               open_by_idx(objs, dev, dev_idx, sc.openSt, sc.infoSt, sc.desc,
                           sc.dtype, sc.probeSt, sc.unSt))

OpenBySerial ==
    \E sc \in OpenScenarios :
        Record("open_by_serial", None, [desc |-> sc.desc, dtype |-> sc.dtype],
               open_by_serial(objs, dev, sc.openSt, sc.infoSt, sc.desc,
                              sc.dtype, sc.probeSt, sc.unSt))

SetAddress ==
    \E i \in Caps, addr \in Addrs, st \in NativeStatus :
        /\ objs[i].cls = "I2CSlave"
        /\ LET r == I2CSlave_set_address(objs, dev, i, addr, st)
           IN  /\ Unread(r, <<st>>)
               /\ Record("set_address", i, [desc |-> "-", dtype |-> "-", addr |-> addr], r)

MultiReadWrite ==
    \E i \in Caps, wd \in WriteData, sw \in SingleCounts, mw \in MultiWriteCounts,
       mr \in MultiReadCounts, st \in NativeStatus :
        /\ objs[i].cls = "SpiMasterMulti"
        /\ LET r == SpiMasterMulti_multi_read_write(objs, dev, i, wd, sw, mw, mr, st)
           IN  /\ Unread(r, <<st>>)
               /\ Record("multi_read_write", i,
                         [desc |-> "-", dtype |-> "-", wd |-> wd, sw |-> sw,
                          mw |-> mw, mr |-> mr], r)

I2CRead ==
    \E i \in Caps, da \in DevAddresses, n \in ReadCounts, st \in NativeStatus :
        /\ objs[i].cls = "I2CMaster"
        /\ LET r == I2CMaster_read(objs, dev, i, da, n, st)
           IN  /\ Unread(r, <<st>>)
               /\ Record("read", i,
                         [desc |-> "-", dtype |-> "-", dev_address |-> da,
                          read_byte_count |-> n], r)

(* the methods whose arguments are modelled in full under Spec have their  *)
(* own action                                                              *)
DetailedOps == {"set_address"}

Operation ==
    \E i \in DOMAIN objs, op \in AllOps \ DetailedOps, valid \in BOOLEAN,
       st \in NativeStatus :
        /\ op \in OpsOf(objs[i].cls)
        /\ (op \notin ArgOps(objs[i].cls) \/ objs[i].handle = None) => valid
        /\ LET r == handle_op(objs, dev, i, op, valid, st)
           IN  Unread(r, <<st>>) /\ Finish(op, i, r)

Reset ==
    \E i \in DOMAIN objs, op \in ResetOps,
       st0 \in NativeStatus, st1 \in NativeStatus, st2 \in NativeStatus :
        LET r == GenericHandle_reset(objs, dev, i, op, st0, st1, st2)
        IN  /\ IF objs[i].cls \in StreamClasses
               THEN st1 = "OK" /\ Unread(r, <<st0, st2>>)
               ELSE Unread(r, <<st0, st1, st2>>)
            /\ Finish(op, i, r)

ExitScope ==
    \E i \in DOMAIN objs, st \in NativeStatus :
        LET r == handle_exit(objs, dev, i, st)
        IN  Unread(r, <<st>>) /\ Finish("__exit__", i, r)

ScopedUse ==
    \E i \in Streams, variant \in AllInits, body \in BodyEnds,
       stI \in NativeStatus, stU \in NativeStatus, stC \in NativeStatus :
        /\ variant \in InitOps(objs[i].cls)
        /\ LET r == scoped_use(objs, dev, i, variant, body, stI, stU, stC)
           IN  /\ Unread(r, <<stI, stU, stC>>)
               /\ Record("with", i,
                         [desc |-> "-", dtype |-> "-", body |-> body,
                          variant |-> variant], r)

Next ==
    \/ OpenByIdx
    \/ OpenBySerial
    \/ SetIoMode
    \/ Operation
    \/ Reset
    \/ InitStar
    \/ UnInitialize
    \/ Close
    \/ ExitScope
    \/ ScopedUse
    \/ SetAddress

Spec == Init /\ [][Next]_vars

(* ------------- two threads calling methods of one handle --------------- *)
(* The methods take no lock, so a thread can be pre-empted between any two *)
(* statements (and the interpreter releases its lock around every native   *)
(* call).  Each thread runs one method, one statement per step:            *)
(*   init_*        guard; native init of self._handle; self._handle = None *)
(*                 and construction of the capability handle               *)
(*   close         (stream-mode handle) guard; close_handle(self._handle); *)
(*                 self._handle = None                                     *)
(*   uninitialize  GenericProtocolHandle: guard; uninitialize of           *)
(*                 self._handle; self._stream_handle._handle = new_handle; *)
(*                 self._handle = None                                     *)
(*                 SPI / I2C master: guard; handle = self._handle;         *)
(*                 self._handle = None; uninitialize(handle) and the call  *)
(*                 of self._mode_class                                     *)
Final == {"returned", "raised"}

(* the capability classes each stream class can produce *)
CapsOfStream(cls) == {CapOf(v) : v \in InitOps(cls)}

(* a Live stream-mode handle, or a Live capability handle carved out of a  *)
(* Spent one, on one open connection                                       *)
ThreadConfigs ==
    {<<NewObj(c, 1, NoOrigin)>> : c \in StreamClasses}
    \cup UNION {{<<NewObj(c, None, NoOrigin),
                   NewObj(k, 1, [kind |-> "instance", ref |-> 1, cls |-> c])>> :
                      k \in CapsOfStream(c)} : c \in StreamClasses}

ThreadInit ==
    /\ objs \in ThreadConfigs
    /\ dev = <<[open |-> TRUE, proto |-> "none"]>>
    /\ last = NoCall
    /\ thr = [t \in Threads |-> Idle]
    /\ lib = LoadedLib

IsMaster(i) == objs[i].cls \in ModeClassCaps

(* the driver has no device for a null handle: the call fails *)
NullSafe(h, st) == h = None => st /= "OK"

(* a thread enters a method of a handle object *)
ThreadCall(t) ==
    \E i \in DOMAIN objs, op \in AllInits \cup {"close", "uninitialize"} :
        /\ thr[t].pc = "idle"
        /\ \/ op \in InitOps(objs[i].cls)
           \/ op = "close" /\ i \in Streams
           \/ op = "uninitialize" /\ i \in Caps
        /\ thr' = [thr EXCEPT ![t] = [Idle EXCEPT !.pc = "guard", !.op = op, !.obj = i]]
        /\ UNCHANGED <<objs, dev, last, lib>>

(* the test of self._handle that opens every method *)
ThreadGuard(t) ==
    /\ thr[t].pc = "guard"
    /\ LET i == thr[t].obj
           op == thr[t].op
       IN  IF objs[i].handle = None
           THEN thr' = [thr EXCEPT ![t].pc = IF op = "close" THEN "returned" ELSE "raised",
                                   ![t].exc = IF op = "close" THEN "none"
                                              ELSE "Ft4222Exception"]
           ELSE thr' = [thr EXCEPT ![t].pc = IF op = "uninitialize" /\ IsMaster(i)
                                              THEN "take" ELSE "native"]
    /\ UNCHANGED <<objs, dev, last, lib>>

(* handle = self._handle *)
ThreadTake(t) ==
    /\ thr[t].pc = "take"
    /\ thr' = [thr EXCEPT ![t].h = objs[thr[t].obj].handle, ![t].pc = "clear"]
    /\ UNCHANGED <<objs, dev, last, lib>>

(* the native call, on the resource read at this moment *)
ThreadNative(t) ==
    \E st \in NativeStatus :
        LET i == thr[t].obj
            op == thr[t].op
            h == IF op = "uninitialize" /\ IsMaster(i) THEN thr[t].h ELSE objs[i].handle
        IN  /\ thr[t].pc = "native"
            /\ NullSafe(h, st)
            /\ last' = last /\ lib' = lib
            /\ IF op \in AllInits
               THEN /\ dev' = IF h = None THEN dev ELSE wrapper_init(dev, h, op, st).dev
                    /\ objs' = objs
                    /\ thr' = IF st = "OK"
                              THEN [thr EXCEPT ![t].pc = "store", ![t].h = h]
                              ELSE [thr EXCEPT ![t].pc = "raised",
                                               ![t].exc = "Ft4222Exception"]
               ELSE IF op = "close"
               THEN /\ dev' = IF h = None THEN dev ELSE close_handle(dev, h, st).dev
                    /\ objs' = objs
                    /\ thr' = IF st \in CloseTolerated
                              THEN [thr EXCEPT ![t].pc = "store"]
                              ELSE [thr EXCEPT ![t].pc = "raised", ![t].exc = "FtException"]
               ELSE IF ~IsMaster(i)
               THEN /\ dev' = IF h = None THEN dev ELSE uninitialize(dev, h, st).dev
                    /\ objs' = objs
                    /\ thr' = IF st = "OK"
                              THEN [thr EXCEPT ![t].pc = "restore", ![t].h = h]
                              ELSE [thr EXCEPT ![t].pc = "raised",
                                               ![t].exc = "Ft4222Exception"]
               ELSE /\ dev' = IF h = None THEN dev ELSE uninitialize(dev, h, st).dev
                    /\ IF st = "OK"
                       THEN LET r == call_mode_class(objs, dev, objs[i].origin, h, <<>>)
                            IN  /\ objs' = r.objs
                                /\ thr' = [thr EXCEPT
                                             ![t].pc = IF r.exc = "none" THEN "returned"
                                                       ELSE "raised",
                                             ![t].exc = r.exc]
                       ELSE /\ objs' = objs
                            /\ thr' = [thr EXCEPT ![t].pc = "raised",
                                                  ![t].exc = "Ft4222Exception"]

(* self._handle = None, followed in init_* by the construction of the      *)
(* capability handle from the result of the native call                    *)
ThreadStore(t) ==
    /\ thr[t].pc = "store"
    /\ LET i == thr[t].obj
       IN  objs' = IF thr[t].op = "close"
                   THEN SetHandle(objs, i, None)
                   ELSE Append(SetHandle(objs, i, None),
                               NewObj(CapOf(thr[t].op), thr[t].h, InstanceRef(objs, i)))
    /\ thr' = [thr EXCEPT ![t].pc = "returned"]
    /\ UNCHANGED <<dev, last, lib>>

(* self._stream_handle._handle = new_handle *)
ThreadRestore(t) ==
    /\ thr[t].pc = "restore"
    /\ objs' = SetHandle(objs, objs[thr[t].obj].origin.ref, thr[t].h)
    /\ thr' = [thr EXCEPT ![t].pc = "clear"]
    /\ UNCHANGED <<dev, last, lib>>

(* self._handle = None inside uninitialize *)
ThreadClear(t) ==
    /\ thr[t].pc = "clear"
    /\ objs' = SetHandle(objs, thr[t].obj, None)
    /\ thr' = [thr EXCEPT ![t].pc = IF IsMaster(thr[t].obj) THEN "native"
                                     ELSE "returned"]
    /\ UNCHANGED <<dev, last, lib>>

ThreadNext ==
    \E t \in Threads :
        \/ ThreadCall(t)
        \/ ThreadGuard(t)
        \/ ThreadTake(t)
        \/ ThreadNative(t)
        \/ ThreadStore(t)
        \/ ThreadRestore(t)
        \/ ThreadClear(t)

ThreadSpec == ThreadInit /\ [][ThreadNext]_vars

(* ------- calls with their arguments on one handle of a connection ------ *)
(* a handle in one of the configurations above is called with arguments    *)
(* drawn from the ends of their ranges, while Live and after it has been   *)
(* uninitialized or closed                                                 *)
CallNext ==
    \/ MultiReadWrite
    \/ I2CRead
    \/ SetAddress
    \/ UnInitialize
    \/ Close

CallSpec == ThreadInit /\ [][CallNext]_vars

(* -------- the library level: loader, Result, device information -------- *)
LibInit ==
    /\ objs = <<>>
    /\ dev = <<>>
    /\ last = NoCall
    /\ thr = [t \in Threads |-> Idle]
    /\ lib \in {NewLib(os, machine) : os \in OsTypes, machine \in Machines}

(* the observable result of a call that touches no handle object *)
LibRecord(op, arg, l, r) ==
    /\ lib' = l
    /\ last' = [NoCall EXCEPT !.op = op, !.arg = arg, !.ret = r.ret,
                              !.exc = r.exc, !.calls = r.calls]
    /\ UNCHANGED <<objs, dev, thr>>

(* one call of init_libraries(); the digest of the file and the answers of *)
(* the dynamic loader are the environment's                                *)
InitLibraries ==
    \E hashOk \in BOOLEAN, ftOk \in BOOLEAN, d2Ok \in BOOLEAN :
        LET r == init_libraries(lib, hashOk, ftOk, d2Ok)
        IN  /\ r.lib.ft_loads <= MaxLoads /\ r.lib.d2_loads <= MaxLoads
            /\ LibRecord("init_libraries",
                         [before |-> lib, hashOk |-> hashOk],
                         r.lib, [ret |-> None, exc |-> r.exc, calls |-> r.calls])

GetDeviceInfoDetail ==
    \E n \in 0 .. MaxAttached, dev_idx \in DetailIdx :
        /\ lib.d2lib /= "unset"
        /\ LibRecord("get_device_info_detail", [attached |-> n, dev_idx |-> dev_idx],
                     lib, get_device_info_detail(n, dev_idx))

OkMap ==
    \E v \in Vals, fun \in MapFuns :
        LibRecord("Ok.map", [self |-> Ok(v), fun |-> fun], lib, Ok_map(Ok(v), fun))

OkFlatMap ==
    \E v \in Vals, fun \in FlatMapFuns :
        LibRecord("Ok.flat_map", [self |-> Ok(v), fun |-> fun], lib,
                  Ok_flat_map(Ok(v), fun))

OkUnwrap ==
    \E v \in Vals, fun \in ExcFuns :
        LibRecord("Ok.unwrap", [self |-> Ok(v), fun |-> fun], lib,
                  Ok_unwrap(Ok(v), fun))

ErrMap ==
    \E e \in Errs, fun \in MapFuns :
        LibRecord("Err.map", [self |-> Err(e), fun |-> fun], lib,
                  Err_map(Err(e), fun))

ErrFlatMap ==
    \E e \in Errs, fun \in FlatMapFuns :
        LibRecord("Err.flat_map", [self |-> Err(e), fun |-> fun], lib,
                  Err_flat_map(Err(e), fun))

ErrUnwrap ==
    \E e \in Errs, fun \in ExcFuns :
        LibRecord("Err.unwrap", [self |-> Err(e), fun |-> fun], lib,
                  Err_unwrap(Err(e), fun))

LibNext ==
    \/ InitLibraries
    \/ GetDeviceInfoDetail
    \/ OkMap
    \/ OkFlatMap
    \/ OkUnwrap
    \/ ErrMap
    \/ ErrFlatMap
    \/ ErrUnwrap

LibSpec == LibInit /\ [][LibNext]_vars

(* ============================ properties =============================== *)
Holders(c) == {i \in DOMAIN objs : objs[i].handle = c}

(* C1: in every reachable state, at most one handle object (stream-mode or *)
(* capability) holds a non-empty resource for a given native connection.   *)
C1_OwnershipUniqueness ==
    \A c \in DOMAIN dev : Cardinality(Holders(c)) <= 1

(* a stream handle has been initialised, un-initialised and initialised    *)
(* again: two capability handles exist, one of them holds the connection   *)
C1_Witness ==
    /\ last.op \in AllInits /\ last.exc = "none"
    /\ Len(objs) = 3
    /\ Cardinality(Holders(1)) = 1
    /\ objs[2].handle = None /\ objs[3].handle = 1

C3_RoundTripTag ==
    (/\ last.op = "uninitialize" /\ last.live
     /\ last.calls = <<Call("FT4222_UnInitialize", "OK")>>)
    => /\ last.exc = "none"
       /\ last.ret \in Streams
       /\ tag(objs[last.ret].cls) = tag(objs[last.obj].origin.cls)
       /\ objs[last.ret].handle /= None
       /\ Cardinality(Holders(objs[last.ret].handle)) = 1

C5_NativeInitFailureKeepsStream ==
    (/\ last.op \in AllInits /\ last.live
     /\ last.calls /= <<>> /\ last.calls[1].st /= "OK")
    => /\ last.exc = "Ft4222Exception"
       /\ last.status = last.calls[1].st
       /\ last.calls = <<Call(NativeInitOf(last.op), last.status)>>
       /\ last.ret = None
       /\ last.same
       /\ objs[last.obj].handle = last.held
       /\ \A v \in InitOps(objs[last.obj].cls) :
             LET r == stream_init(objs, dev, last.obj, v, 60, "OK")
             IN  /\ r.exc = "none"
                 /\ r.objs[r.ret].handle = last.held

(* an init_* on a Live stream handle has just failed in the driver *)
C5_Witness ==
    /\ last.op \in AllInits /\ last.live
    /\ last.calls /= <<>> /\ last.calls[1].st = "IO_ERROR"
    /\ last.exc = "Ft4222Exception"
    /\ objs[last.obj].handle /= None

(* the capability type the specification names for each init_* variant *)
C6_CapabilityType(variant) ==
    IF variant = "init_single_spi_master" THEN "SpiMasterSingle"
    ELSE IF variant \in {"init_dual_spi_master", "init_quad_spi_master"}
    THEN "SpiMasterMulti"
    ELSE IF variant = "init_raw_spi_slave" THEN "SpiSlaveRaw"
    ELSE IF variant = "init_proto_spi_slave" THEN "SpiSlaveProto"
    ELSE IF variant = "init_i2c_master" THEN "I2CMaster"
    ELSE IF variant = "init_i2c_slave" THEN "I2CSlave"
    ELSE "Gpio"

C7_UninitializeOnSpent ==
    (last.op = "uninitialize" /\ ~last.live)
    => /\ last.exc = "Ft4222Exception" /\ last.status = "DEVICE_NOT_OPENED"
       /\ last.calls = <<>>
       /\ last.same
       /\ last.ret = None

(* uninitialize() has just been called on a Spent I2C master handle *)
C7_Witness ==
    /\ last.op = "uninitialize" /\ ~last.live
    /\ objs[last.obj].cls = "I2CMaster"
    /\ objs[last.obj].handle = None
    /\ last.exc /= "none"

(* C8: every protocol operation and common accessor/mutator invoked on a   *)
(* handle whose resource field is empty raises DEVICE_NOT_OPENED, never    *)
(* another error type, and never reaches the native driver.                *)
C8_SpentHandleRaisesDeviceNotOpened ==
    (last.op \in AllOps \cup ResetOps /\ ~last.live)
    => /\ last.exc = "Ft4222Exception" /\ last.status = "DEVICE_NOT_OPENED"
       /\ last.calls = <<>>

(* C9 as stated: the first close() on a Live stream-mode handle invokes    *)
(* the native close once and empties the resource field; a second close()  *)
(* on the same object raises nothing, makes no native call and changes     *)
(* nothing.                                                                *)
C9_StreamCloseIdempotent ==
    [][/\ (last'.op = "close" /\ last'.live /\ objs[last'.obj].cls \in StreamClasses)
          => /\ Len(last'.calls) = 1 /\ last'.calls[1].fn = "FT_Close"
             /\ objs'[last'.obj].handle = None
       /\ (/\ last.op = "close" /\ last'.op = "close" /\ last'.obj = last.obj
           /\ objs[last.obj].cls \in StreamClasses)
          => /\ last'.exc = "none" /\ last'.calls = <<>>
             /\ objs' = objs /\ dev' = dev]_vars

(* C9 amended: the first close() on a Live stream-mode handle invokes the  *)
(* native close exactly once; when it returns OK, DEVICE_NOT_OPENED,       *)
(* INVALID_HANDLE or DEVICE_NOT_FOUND the resource field is emptied,       *)
(* otherwise FtException is raised and the handle stays Live.  close() on  *)
(* a stream-mode handle whose resource field is empty raises nothing,      *)
(* makes no native call and leaves the state unchanged.                    *)
C9_StreamCloseIdempotentOnceClosed ==
    (last.op = "close" /\ objs[last.obj].cls \in StreamClasses)
    => IF last.live
       THEN /\ Len(last.calls) = 1 /\ last.calls[1].fn = "FT_Close"
            /\ IF last.calls[1].st \in CloseTolerated
               THEN last.exc = "none" /\ objs[last.obj].handle = None
               ELSE /\ last.exc = "FtException" /\ last.status = last.calls[1].st
                    /\ objs[last.obj].handle = last.held
                    /\ last.same
       ELSE /\ last.exc = "none" /\ last.calls = <<>>
            /\ last.same
            /\ objs[last.obj].handle = None

(* close() has just been called on a stream-mode handle that an earlier    *)
(* close() emptied: the only object there is, its connection closed        *)
C9_Witness ==
    /\ last.op = "close" /\ ~last.live
    /\ Len(objs) = 1 /\ objs[1].cls \in StreamClasses
    /\ Len(dev) = 1 /\ ~dev[1].open
    /\ last.exc = "none" /\ last.calls = <<>>

(* C10: calling close() twice on the same capability handle never raises   *)
(* on the second call.                                                     *)
C10_CapabilityCloseIdempotent ==
    [][(/\ last.op = "close" /\ last.exc = "none"
        /\ last'.op = "close" /\ last'.obj = last.obj
        /\ objs[last.obj].cls \in CapClasses)
       => last'.exc = "none"]_vars


(* C11: close() on a Live capability handle, the native calls succeeding,  *)
(* is uninitialize() followed by close() of the resulting stream-mode      *)
(* handle: the driver sees exactly one un-initialise followed by exactly   *)
(* one close, the connection is released and no object holds its resource. *)
C11_CapabilityCloseReleases ==
    (/\ last.op = "close" /\ last.live
     /\ objs[last.obj].cls \in CapClasses
     /\ \A k \in DOMAIN last.calls : last.calls[k].st = "OK")
    => /\ last.exc = "none"
       /\ last.calls = <<Call("FT4222_UnInitialize", "OK"), Call("FT_Close", "OK")>>
       /\ Holders(last.held) = {}
       /\ ~dev[last.held].open


(* an open_by_* call whose native open and short device-info query both    *)
(* succeeded: mode resolution has looked the reported pair up              *)
OpenOps == {"open_by_idx", "open_by_serial"}

Resolved ==
    /\ last.op \in OpenOps
    /\ Len(last.calls) >= 2
    /\ last.calls[1].st = "OK"
    /\ last.calls[2] = Call("FT_GetDeviceInfo", "OK")

(* the documented table: the six pairs that resolve directly, and the one  *)
(* that goes through the disambiguation procedure                          *)
DocumentedDirect ==
    {<<"FT4222 A", "DEV_4222H_0", "ProtocolStream">>,
     <<"FT4222 B", "DEV_4222H_0", "GpioStream">>,
     <<"FT4222 A", "DEV_4222H_1_2", "SpiStream">>,
     <<"FT4222 B", "DEV_4222H_1_2", "SpiStream">>,
     <<"FT4222 C", "DEV_4222H_1_2", "SpiStream">>,
     <<"FT4222", "DEV_4222H_3", "ProtocolStream">>}

DocumentedPairs ==
    {<<t[1], t[2]>> : t \in DocumentedDirect} \cup {<<"FT4222 D", "DEV_4222H_1_2">>}

C14_InfoFailureInvalidHandle ==
    (/\ last.op \in OpenOps /\ Len(last.calls) >= 2
     /\ last.calls[2].fn = "FT_GetDeviceInfo" /\ last.calls[2].st /= "OK")
    => /\ last.exc = "none"
       /\ last.err = "INVALID_HANDLE"
       /\ last.ret = None
       /\ Len(last.calls) = 2

(* an open whose resolution went through the disambiguation probe *)
Probed ==
    /\ Resolved
    /\ last.arg.desc = "FT4222 D" /\ last.arg.dtype = "DEV_4222H_1_2"
    /\ Len(last.calls) >= 3
    /\ last.calls[3].fn = "FT4222_GPIO_Init"

(* C15 as stated: when the native GPIO init of the probe succeeds, resolve *)
(* returns a GpioStream, the driver observes exactly one GPIO init (all    *)
(* four pins input) followed by exactly one un-initialise, and the device  *)
(* is back in the un-initialised state.                                    *)
C15_ProbeAccepted ==
    (Probed /\ last.calls[3].st = "OK")
    => /\ last.exc = "none" /\ last.err = "none"
       /\ last.ret \in Streams
       /\ objs[last.ret].cls = "GpioStream"
       /\ Len(last.calls) = 4
       /\ last.calls[3] = ProbeCall("OK")
       /\ last.calls[4].fn = "FT4222_UnInitialize"
       /\ dev[Len(dev)].proto = "none"

(* C15 amended: when the native GPIO init of the probe succeeds the driver *)
(* observes exactly one GPIO init (all four pins input) followed by        *)
(* exactly one un-initialise; when that un-initialise succeeds as well,    *)
(* resolve returns a Live GpioStream wrapping the raw handle and the       *)
(* device is back in the un-initialised state.                             *)
C15_ProbeAcceptedRolledBack ==
    (Probed /\ last.calls[3].st = "OK")
    => /\ Len(last.calls) = 4
       /\ last.calls[3] = [fn |-> "FT4222_GPIO_Init", st |-> "OK",
                           dirs |-> <<"INPUT", "INPUT", "INPUT", "INPUT">>]
       /\ last.calls[4].fn = "FT4222_UnInitialize"
       /\ last.calls[4].st = "OK" =>
             /\ last.exc = "none" /\ last.err = "none"
             /\ last.ret \in Streams
             /\ objs[last.ret].cls = "GpioStream"
             /\ objs[last.ret].handle = Len(dev)
             /\ dev[Len(dev)].open
             /\ dev[Len(dev)].proto = "none"

(* the probe was accepted and rolled back: a GpioStream has been returned *)
C15_Witness ==
    /\ Probed /\ last.calls[3].st = "OK"
    /\ Len(last.calls) = 4 /\ last.calls[4].st = "OK"
    /\ last.ret \in Streams
    /\ objs[last.ret].cls = "GpioStream"

(* C16: when the native GPIO init of the probe fails, resolve returns a    *)
(* SpiStream wrapping the original raw handle, no un-initialise call is    *)
(* made, and the native device state is as it was before the probe.        *)
C16_ProbeRejected ==
    (Probed /\ last.calls[3].st /= "OK")
    => /\ last.exc = "none" /\ last.err = "none"
       /\ last.ret \in Streams
       /\ objs[last.ret].cls = "SpiStream"
       /\ objs[last.ret].handle = Len(dev)
       /\ Len(last.calls) = 3
       /\ dev[Len(dev)] = [open |-> TRUE, proto |-> "none"]

(* the probe was rejected with IO_ERROR and a SpiStream has been returned *)
C16_Witness ==
    /\ Probed /\ last.calls[3].st = "IO_ERROR"
    /\ last.ret \in Streams
    /\ objs[last.ret].cls = "SpiStream"

(* C17: if the probe succeeds but the rollback (native un-initialise)      *)
(* fails, the condition is fatal: the call raises, resolve returns neither *)
(* Ok nor an Err value, and no GpioStream or SpiStream is constructed for  *)
(* that connection.                                                        *)
C17_RollbackFailureFatal ==
    (/\ Probed /\ last.calls[3].st = "OK"
     /\ Len(last.calls) >= 4 /\ last.calls[4].st /= "OK")
    => /\ last.exc = "Ft4222Exception"
       /\ last.status = last.calls[4].st
       /\ last.err = "none"
       /\ last.ret = None
       /\ Holders(Len(dev)) = {}

(* the rollback of an accepted probe has just failed *)
C17_Witness ==
    /\ Probed /\ last.calls[3].st = "OK"
    /\ Len(last.calls) = 4
    /\ last.calls[4] = Call("FT4222_UnInitialize", "IO_ERROR")
    /\ last.exc /= "none"


(* C18: open_by_idx(i) returns Err(INVALID_IDX) without any native call    *)
(* for every i < 0 and every i >= 2^31 (in particular -1 and 2^31), and    *)
(* for every 0 <= i < 2^31 (in particular 0 and 2^31 - 1) it proceeds to   *)
(* the native open call.                                                   *)
C18_IndexBoundary ==
    last.op = "open_by_idx" =>
        IF last.arg.dev_idx.hi < 0 \/ last.arg.dev_idx.hi >= 32768
        THEN /\ last.exc = "none"
             /\ last.err = "INVALID_IDX"
             /\ last.ret = None
             /\ last.calls = <<>>
             /\ last.same
        ELSE /\ Len(last.calls) >= 1
             /\ last.calls[1].fn = "FT_Open"

(* open_by_idx(2^31) has just been refused *)
C18_Witness ==
    /\ last.op = "open_by_idx"
    /\ last.arg.dev_idx = [hi |-> 32768, lo |-> 0]
    /\ last.err = "INVALID_IDX"

(* C19: every failure of open_by_idx / open_by_serial /                    *)
(* open_by_description and of mode resolution (native open failure,        *)
(* short-info failure, unknown mode) is returned as an Err value and is    *)
(* never raised as an exception.                                           *)
C19_OpenFailuresAreValues ==
    (/\ last.op \in OpenOps
     /\ \/ (Len(last.calls) >= 1 /\ last.calls[1].st /= "OK")
        \/ (Len(last.calls) >= 2 /\ last.calls[2].st /= "OK")
        \/ (Resolved /\ <<last.arg.desc, last.arg.dtype>> \notin DocumentedPairs))
    => /\ last.exc = "none"
       /\ last.err /= "none"
       /\ last.ret = None

(* the capability types the documentation attaches to each tag *)
TagCapabilities(t) ==
    IF t = "SPI_MASTER" THEN {"SpiMasterSingle", "SpiMasterMulti"}
    ELSE IF t = "GPIO" THEN {"Gpio"}
    ELSE {"SpiMasterSingle", "SpiMasterMulti", "SpiSlaveRaw", "SpiSlaveProto",
          "I2CMaster", "I2CSlave"}

(* C20: the capability types produced from a stream-mode handle are fixed  *)
(* by its tag across any number of init/uninitialize cycles: SPI-master    *)
(* tag gives only SpiMasterSingle and SpiMasterMulti, GPIO tag only Gpio,  *)
(* data-stream tag SPI master, SPI slave, I2C master and I2C slave but     *)
(* never Gpio.                                                             *)
C20_CapabilitiesFixedByTag ==
    \A j \in Caps :
        /\ objs[j].origin.ref \in Streams
        /\ objs[j].origin.cls = objs[objs[j].origin.ref].cls
        /\ objs[j].cls \in TagCapabilities(tag(objs[j].origin.cls))

(* a second cycle: the stream handle has produced a capability handle,     *)
(* taken its resource back and produced another one of a different type    *)
C20_Witness ==
    /\ Len(objs) = 3
    /\ last.op \in AllInits /\ last.obj = 1 /\ last.ret = 3
    /\ objs[2].origin.ref = 1 /\ objs[3].origin.ref = 1
    /\ objs[2].cls /= objs[3].cls
    /\ objs[3].handle /= None


(* C21: for every interleaving of two threads invoking init_* (or init_*   *)
(* and close, or two uninitialize calls) on the same Live handle object,   *)
(* at most one of the calls obtains the resource, and once both calls have *)
(* ended no two objects hold a non-empty resource for the same connection. *)
C21_NoConcurrentDoubleOwnership ==
    (\A t \in Threads : thr[t].pc \in Final \cup {"idle"})
    => /\ \A c \in DOMAIN dev : Cardinality(Holders(c)) <= 1
       /\ (/\ thr[1].obj = thr[2].obj
           /\ thr[1].op \in AllInits /\ thr[2].op \in AllInits)
          => ~(thr[1].pc = "returned" /\ thr[2].pc = "returned")


(* C22: `with handle:` enclosing `with handle.init_X(...) as cap:`, the    *)
(* native calls succeeding: leaving the inner scope un-initialises the     *)
(* capability handle (native un-initialise, not close), leaving the outer  *)
(* scope closes the connection, whether the block ends normally or by an   *)
(* exception, which is propagated; afterwards the connection is closed and *)
(* no object holds a resource.  Leaving a scope whose handle is already    *)
(* Spent raises nothing.                                                   *)
C22_ScopedUse ==
    /\ (/\ last.op = "with" /\ last.live
        /\ \A k \in DOMAIN last.calls : last.calls[k].st = "OK")
       => /\ last.calls = <<Call(NativeInitOf(last.arg.variant), "OK"),
                            Call("FT4222_UnInitialize", "OK"),
                            Call("FT_Close", "OK")>>
          /\ last.exc = last.arg.body
          /\ ~dev[last.held].open
          /\ Holders(last.held) = {}
    /\ (last.op = "__exit__" /\ ~last.live)
       => /\ last.exc = "none" /\ last.calls = <<>>
          /\ last.same


(* the operations of a handle object *)
HandleOps ==
    AllOps \cup ResetOps \cup AllInits \cup {"uninitialize", "close", "__exit__"}

(* the native calls whose wrappers accept INVALID_HANDLE, DEVICE_NOT_FOUND *)
(* and DEVICE_NOT_OPENED as well as OK                                     *)
ToleratedCalls == {"FT_Close", "reset_device"} \cup SoftErrorOps

Tolerated(c) == c.fn \in ToleratedCalls /\ c.st \in CloseTolerated

(* C23 as stated: whenever a native primitive invoked by an operation on a *)
(* Live handle returns a non-OK status, the operation raises an error      *)
(* whose status is exactly that native code.                               *)
C23_NativeStatusPassThrough ==
    (last.op \in HandleOps /\ last.live)
    => \A k \in DOMAIN last.calls :
          last.calls[k].st /= "OK"
          => /\ last.exc \in {"FtException", "Ft4222Exception"}
             /\ last.status = last.calls[k].st

(* C23 amended: whenever a native primitive invoked by an operation on a   *)
(* Live handle returns a non-OK status, the operation stops there and      *)
(* raises an error whose status is exactly that native code, except that   *)
(* INVALID_HANDLE, DEVICE_NOT_FOUND and DEVICE_NOT_OPENED returned to      *)
(* close, purge_buffers, reset_device, reset_bus, reset_transaction or     *)
(* set_driving_strength are taken as success: the operation goes on and    *)
(* that status is not reported.                                            *)
C23_PassThroughExceptTolerated ==
    (last.op \in HandleOps /\ last.live)
    => \A k \in DOMAIN last.calls :
          last.calls[k].st /= "OK"
          => IF Tolerated(last.calls[k])
             THEN k < Len(last.calls) \/ last.exc = "none"
             ELSE /\ k = Len(last.calls)
                  /\ last.exc \in {"FtException", "Ft4222Exception"}
                  /\ last.status = last.calls[k].st

(* set_clock on a Live handle has just failed with DEVICE_NOT_OPENED, a    *)
(* status that purge_buffers would have swallowed                          *)
C23_Witness ==
    /\ last.op = "set_clock" /\ last.live
    /\ last.calls = <<Call("set_clock", "DEVICE_NOT_OPENED")>>
    /\ last.exc = "Ft4222Exception" /\ last.status = "DEVICE_NOT_OPENED"


ScopeOps == {"__exit__", "with"}

C26_ReinitAfterUninitialize ==
    (/\ last.op = "uninitialize" /\ last.live
     /\ Len(last.calls) = 1 /\ last.calls[1].st = "OK")
    => /\ last.exc = "none"
       /\ last.ret \in Streams
       /\ objs[last.ret].handle = last.held
       /\ \A v \in InitOps(objs[last.ret].cls) :
             LET r == stream_init(objs, dev, last.ret, v, 60, "OK")
             IN  /\ r.exc = "none"
                 /\ r.objs[r.ret].cls = CapOf(v)
                 /\ r.objs[r.ret].handle = last.held
                 /\ r.objs[last.ret].handle = None


(* C27: if the native un-initialise primitive fails during uninitialize()  *)
(* or close() of a Live capability handle of any type, the error is raised *)
(* with the native status and the capability handle keeps its resource, so *)
(* that the still-open connection keeps exactly one owner.                 *)
C27_UninitializeFailureKeepsOwner ==
    (/\ last.op \in {"uninitialize", "close"} /\ last.live
     /\ objs[last.obj].cls \in CapClasses
     /\ last.calls /= <<>> /\ last.calls[1].st /= "OK")
    => /\ last.calls = <<Call("FT4222_UnInitialize", last.calls[1].st)>>
       /\ last.exc = "Ft4222Exception"
       /\ last.status = last.calls[1].st
       /\ objs[last.obj].handle = last.held
       /\ Holders(last.held) = {last.obj}


(* C28: whenever open_by_idx / open_by_serial / open_by_description        *)
(* returns Err, or resolution aborts, after the native open succeeded, the *)
(* native connection has been closed again; in every reachable state an    *)
(* open native connection is owned by exactly one Live handle object.      *)
C28_NoOrphanedConnection ==
    /\ (/\ last.op \in OpenOps
        /\ last.calls /= <<>> /\ last.calls[1].st = "OK"
        /\ (last.err /= "none" \/ last.exc /= "none"))
       => /\ ~dev[Len(dev)].open
          /\ last.calls[Len(last.calls)].fn = "FT_Close"
    /\ \A c \in DOMAIN dev : dev[c].open => Cardinality(Holders(c)) = 1


(* statuses the native close can answer with, inside and outside the set   *)
(* that close_handle accepts                                               *)
CloseStatuses ==
    {"OK", "DEVICE_NOT_OPENED", "INVALID_HANDLE", "DEVICE_NOT_FOUND",
     "IO_ERROR", "INSUFFICIENT_RESOURCES", "INVALID_PARAMETER"}

(* C29: close() on a Live stream-mode handle whose native close returns a  *)
(* status outside {OK, DEVICE_NOT_OPENED, INVALID_HANDLE,                  *)
(* DEVICE_NOT_FOUND} raises with that status and leaves the resource field *)
(* populated, so that close can be retried; for any status inside that set *)
(* close() returns normally and the handle becomes Spent.                  *)
C29_CloseFailureKeepsHandle ==
    /\ \A i \in Streams, st \in CloseStatuses :
          objs[i].handle /= None =>
             LET r == GenericHandle_close(objs, dev, i, st)
             IN  /\ r.calls = <<Call("FT_Close", st)>>
                 /\ IF st \in {"OK", "DEVICE_NOT_OPENED", "INVALID_HANDLE",
                                "DEVICE_NOT_FOUND"}
                    THEN r.exc = "none" /\ r.objs[i].handle = None
                    ELSE /\ r.exc = "FtException" /\ r.status = st
                         /\ r.objs = objs
                         /\ LET again == GenericHandle_close(r.objs, r.dev, i, "OK")
                            IN  /\ again.exc = "none"
                                /\ again.calls = <<Call("FT_Close", "OK")>>
                                /\ again.objs[i].handle = None
                                /\ ~again.dev[objs[i].handle].open
    /\ (/\ last.op = "close" /\ last.live
        /\ objs[last.obj].cls \in StreamClasses
        /\ last.exc /= "none")
       => /\ last.calls[1].st \notin {"OK", "DEVICE_NOT_OPENED", "INVALID_HANDLE",
                                       "DEVICE_NOT_FOUND"}
          /\ last.status = last.calls[1].st
          /\ objs[last.obj].handle = last.held

(* close() has just failed with IO_ERROR on a Live stream-mode handle,     *)
(* which still holds its connection                                        *)
C29_Witness ==
    /\ last.op = "close" /\ last.live
    /\ objs[last.obj].cls \in StreamClasses
    /\ last.calls = <<Call("FT_Close", "IO_ERROR")>>
    /\ last.exc = "FtException"
    /\ objs[last.obj].handle = last.held
    /\ dev[last.held].open


(* C30: set_io_mode(io_mode) on a Live SPI-master handle makes the old     *)
(* object Spent and returns a Live object holding the same connection, a   *)
(* SpiMasterSingle iff io_mode is SINGLE and a SpiMasterMulti iff it is    *)
(* DUAL or QUAD, with the same origin, so that a later uninitialize()      *)
(* (native call succeeding) yields a Live stream-mode handle of the        *)
(* original tag; on a Spent handle it raises DEVICE_NOT_OPENED; at most    *)
(* one object holds the connection afterwards.                             *)
C30_SetIoModeConsumes ==
    last.op = "set_io_mode" =>
        IF last.live
        THEN /\ last.exc = "none" /\ last.calls = <<>>
             /\ objs[last.obj].handle = None
             /\ last.ret \in Caps
             /\ objs[last.ret].handle = last.held
             /\ objs[last.ret].cls = "SpiMasterSingle" <=> last.arg.io_mode = "SINGLE"
             /\ objs[last.ret].cls = "SpiMasterMulti"
                   <=> last.arg.io_mode \in {"DUAL", "QUAD"}
             /\ objs[last.ret].origin = objs[last.obj].origin
             /\ Holders(last.held) = {last.ret}
             /\ LET u == cap_uninitialize(objs, dev, last.ret, "OK")
                IN  /\ u.exc = "none"
                    /\ u.ret \in DOMAIN u.objs
                    /\ u.objs[u.ret].cls \in StreamClasses
                    /\ tag(u.objs[u.ret].cls) = tag(objs[last.obj].origin.cls)
                    /\ u.objs[u.ret].handle = last.held
        ELSE /\ last.exc = "Ft4222Exception" /\ last.status = "DEVICE_NOT_OPENED"
             /\ last.calls = <<>> /\ last.same


(* the line mode of the device that an I/O mode stands for *)
LineMode(io_mode) ==
    CASE io_mode = "SINGLE" -> "spi_master_single"
      [] io_mode = "DUAL" -> "spi_master_dual"
      [] io_mode = "QUAD" -> "spi_master_quad"

(* C31: after set_io_mode(io_mode) returns normally on a Live SPI master   *)
(* handle the native set-lines primitive has been invoked exactly once     *)
(* with io_mode and the line mode of the device equals io_mode, so that    *)
(* the type of the returned handle agrees with the device's line mode.     *)
C31_SetIoModeSetsLines ==
    (last.op = "set_io_mode" /\ last.live /\ last.exc = "none")
    => /\ Len(last.calls) = 1
       /\ last.calls[1].fn = "FT4222_SPIMaster_SetLines"
       /\ dev[last.held].proto = LineMode(last.arg.io_mode)
       /\ objs[last.ret].cls = "SpiMasterSingle"
             <=> dev[last.held].proto = "spi_master_single"


C32_WitnessInside ==
    /\ last.op = "init_i2c_master" /\ last.live
    /\ last.arg.kbps = 3400
    /\ last.exc = "none"


(* C33: I2CSlave.set_address(addr) on a Live handle accepts exactly the    *)
(* documented range <0, 65_535>: for every addr in it (e.g. 0x0340) the    *)
(* native set-address primitive is reached and no assertion or argument    *)
(* error occurs; for every addr outside it ValueError is raised and no     *)
(* native call is made.                                                    *)
C33_SetAddressRange ==
    (last.op = "set_address" /\ last.live)
    => IF 0 <= last.arg.addr /\ last.arg.addr <= 65535
       THEN /\ Len(last.calls) = 1
            /\ last.calls[1].fn = "set_address"
            /\ last.exc \notin {"AssertionError", "ValueError"}
       ELSE /\ last.exc = "ValueError"
            /\ last.calls = <<>>

(* the argument tuples the specification lists as accepted *)
C34_Accepted(a) ==
    /\ 0 <= a.sw /\ a.sw <= 15
    /\ 0 <= a.mw /\ a.mw <= 65535
    /\ 0 <= a.mr /\ a.mr <= 65535
    /\ a.sw + a.mw + a.mr > 0
    /\ \/ a.wd = NoData /\ a.sw + a.mw = 0
       \/ a.wd /= NoData /\ a.wd <= 65535 /\ a.sw + a.mw <= a.wd

(* C34: on a Live SpiMasterMulti handle, multi_read_write reaches the      *)
(* native call exactly when 0 <= single_write <= 15, 0 <= multi_write <=   *)
(* 65535, 0 <= multi_read <= 65535, the three counts sum to more than 0,   *)
(* and either write_data is None with no bytes to write or write_data has  *)
(* at most 65535 bytes and at least single_write + multi_write of them;    *)
(* every other call raises ValueError without a native call, so no         *)
(* accepted call fails an assertion of the wrapper.                        *)
C34_MultiReadWriteValidation ==
    (last.op = "multi_read_write" /\ last.live)
    => IF C34_Accepted(last.arg)
       THEN /\ Len(last.calls) = 1
            /\ last.calls[1].fn = "multi_read_write"
            /\ last.exc \notin {"AssertionError", "ValueError"}
       ELSE /\ last.exc = "ValueError"
            /\ last.calls = <<>>
            /\ last.same

(* an accepted call with data on all three phases at the ends of the       *)
(* ranges, and a rejected one, have both happened on a Live handle         *)
C34_Witness ==
    /\ last.op = "multi_read_write" /\ last.live
    /\ last.arg.sw = 15 /\ last.arg.mw = 1 /\ last.arg.mr = 65535
    /\ last.arg.wd = 16
    /\ last.exc = "none"
    /\ Len(last.calls) = 1

C34_WitnessRejected ==
    /\ last.op = "multi_read_write" /\ last.live
    /\ last.arg.sw = 0 /\ last.arg.mw = 0 /\ last.arg.mr = 0
    /\ last.exc = "ValueError"

(* the arguments of the recorded call are outside the ranges its method    *)
(* validates                                                               *)
C35_OutOfRange ==
    CASE last.op = "read" ->
             \/ ~(0 <= last.arg.dev_address /\ last.arg.dev_address <= 65535)
             \/ ~(1 <= last.arg.read_byte_count /\ last.arg.read_byte_count <= 65535)
      [] last.op = "set_address" ->
             ~(0 <= last.arg.addr /\ last.arg.addr <= 65535)
      [] last.op = "multi_read_write" -> ~C34_Accepted(last.arg)
      [] OTHER -> FALSE

(* C35: the Spent guard comes first.  I2CMaster.read, I2CSlave.set_address *)
(* and SpiMasterMulti.multi_read_write called on a Spent handle with       *)
(* arguments out of range (read_byte_count = 0, set_address(-1), all       *)
(* counts zero) raise DEVICE_NOT_OPENED, not ValueError, and make no       *)
(* native call.                                                            *)
C35_GuardPrecedence ==
    (/\ last.op \in {"read", "set_address", "multi_read_write"}
     /\ ~last.live
     /\ C35_OutOfRange)
    => /\ last.exc = "Ft4222Exception"
       /\ last.status = "DEVICE_NOT_OPENED"
       /\ last.calls = <<>>
       /\ last.same

(* read(0, 0) has been called on a Spent I2C master handle *)
C35_Witness ==
    /\ last.op = "read" /\ ~last.live
    /\ last.arg.read_byte_count = 0
    /\ last.exc = "Ft4222Exception"

(* set_address(-1) has been called on a Spent I2C slave handle *)
C35_WitnessSetAddress ==
    /\ last.op = "set_address" /\ ~last.live
    /\ last.arg.addr = -1
    /\ last.exc = "Ft4222Exception"

(* multi_read_write with all counts zero on a Spent SPI master handle *)
C35_WitnessMulti ==
    /\ last.op = "multi_read_write" /\ ~last.live
    /\ last.arg.sw = 0 /\ last.arg.mw = 0 /\ last.arg.mr = 0
    /\ last.exc = "Ft4222Exception"

(* C36: get_device_info_detail(dev_idx) returns the entry at index         *)
(* dev_idx: for an index with a device the driver is asked about that      *)
(* index and the DeviceInfo returned describes that device; for an index   *)
(* with no device, or outside 0 .. 2^31 - 1, Err(INVALID_IDX) is returned. *)
C36_DeviceInfoDetailByIndex ==
    last.op = "get_device_info_detail"
    => LET i == last.arg.dev_idx
           n == last.arg.attached
       IN  IF i.hi = 0 /\ i.lo < n
           THEN /\ last.exc = "none"
                /\ Len(last.calls) = 1
                /\ last.calls[1].index = i
                /\ last.ret = Ok([device |-> i.lo])
           ELSE /\ last.exc = "none"
                /\ last.ret = Err("INVALID_IDX")

(* C37: Ok(v).unwrap(f) returns v and raises nothing; Err(e).unwrap(f)     *)
(* raises f(e); Ok(v).map(f) = Ok(f(v)); Ok(v).flat_map(f) = f(v);         *)
(* Err(e).map(f) and Err(e).flat_map(f) return Err(e) itself and do not    *)
(* call f.                                                                 *)
C37_ResultAlgebra ==
    LET self == last.arg.self
        f == last.arg.fun
    IN  /\ last.op = "Ok.unwrap" => last.ret = self.val /\ last.exc = NoExc
        /\ last.op = "Err.unwrap" => last.exc = f[self.err] /\ last.exc /= NoExc
        /\ last.op = "Ok.map" => last.ret = Ok(f[self.val]) /\ last.exc = NoExc
        /\ last.op = "Ok.flat_map" => last.ret = f[self.val] /\ last.exc = NoExc
        /\ last.op \in {"Err.map", "Err.flat_map"}
           => /\ last.ret = self
              /\ last.calls = <<>>
              /\ last.exc = NoExc

(* Ok(1).map(v + 1 mod 3) has returned Ok(2) *)
C37_Witness ==
    /\ last.op = "Ok.map"
    /\ last.arg.self = Ok(1)
    /\ last.ret = Ok(2)

(* Err(INVALID_IDX).unwrap(FtException) has raised FtException(INVALID_IDX) *)
C37_WitnessErr ==
    /\ last.op = "Err.unwrap"
    /\ last.exc = [type |-> "FtException", arg |-> "INVALID_IDX"]

(* the call recorded loaded the FT4222 library *)
C38_LoadedNow ==
    \E k \in DOMAIN last.calls : last.calls[k] = Call("LoadLibrary(ft4222)", "OK")

(* C38: the FT4222 library is loaded only after its SHA-256 digest has     *)
(* been compared with the pinned one and found equal; on a mismatch or an  *)
(* unsupported OS/CPU pair no library is loaded and the call aborts; and   *)
(* whatever the number of init_libraries() calls, each of the two          *)
(* libraries is loaded at most once.                                       *)
C38_VerifiedLoadOnce ==
    /\ lib.ft_loads <= 1
    /\ lib.d2_loads <= 1
    /\ last.op = "init_libraries"
       => /\ \A k \in DOMAIN last.calls :
                 last.calls[k].fn = "LoadLibrary(ft4222)"
                 => k > 1 /\ last.calls[k - 1] = Call("sha256", "equal")
          /\ (last.arg.before.ftlib = "unset"
              /\ (~dll_path_found(last.arg.before) \/ ~last.arg.hashOk))
             => /\ last.exc \in {"RuntimeError", "SystemExit"}
                /\ lib = last.arg.before
                /\ lib.ftlib = "unset" /\ lib.d2lib = "unset"
                /\ \A k \in DOMAIN last.calls : last.calls[k].st /= "OK"

(* a second call of init_libraries() after both libraries were loaded on   *)
(* Windows                                                                 *)
C38_Witness ==
    /\ last.op = "init_libraries"
    /\ last.arg.before.ftlib /= "unset" /\ last.arg.before.d2lib = "ftd2xx"
    /\ lib.ft_loads = 1 /\ lib.d2_loads = 1
    /\ last.exc = "none"

(* the library was loaded after an equal digest *)
C38_WitnessLoad ==
    /\ last.op = "init_libraries"
    /\ C38_LoadedNow

(* a call aborted on a digest mismatch *)
C38_WitnessMismatch ==
    /\ last.op = "init_libraries"
    /\ dll_path_found(lib) /\ ~last.arg.hashOk
    /\ last.exc = "SystemExit"
    /\ lib.ftlib = "unset"

====
